---------------------------- MODULE Spec2Model ----------------------------
(***************************************************************************)
(* Model of the ojfbot daily-cleaner: the Sweep -> Validate -> Patch ->    *)
(* Publish pipeline of cleaner.ts and its entry point clean.ts.            *)
(*                                                                         *)
(* Text is modelled as a non-empty sequence of lines: a JavaScript string  *)
(* s is the sequence s.split('\n'), so the empty string is <<"">> and      *)
(* lines.join('\n') of an empty array is again <<"">>.                     *)
(***************************************************************************)
EXTENDS Integers, Sequences, FiniteSets, TLC

VARIABLES
    \* ---- validateCandidates ------------------------------------------
    candidates,     \* the CleanCandidate[] handed to validateCandidates
    vi,             \* index of the next candidate of the for-loop
    vProposals,     \* the proposals array being built
    lastResp,       \* the oracle's answer to the last candidate visited
    lastOut,        \* the proposals the last candidate contributed
    \* ---- openCleanPRs -------------------------------------------------
    proposals,      \* the CleanProposal[] handed to openCleanPRs
    files,          \* git host: the default branch's files of every repository
    branch,         \* git host: does branch clean/<date> exist in the repository
    prs,            \* git host: pull requests opened with head clean/<date>
    tree,           \* git host: the files of the commit clean/<date> points to
    prBody,         \* git host: the body of the pull request of clean/<date>
    run,            \* number of openCleanPRs calls started for this date
    isDryRun,       \* the isDryRun argument of the current call
    ri,             \* position of the for-loop over byRepo
    pc,             \* the statement the current call has reached
    workspace,      \* the files in tmpDir
    sorted,         \* the sorted copy of the repository's proposals
    ai,             \* position of the for-loop over sorted
    applied,        \* the applyProposal calls made on tmpDir, in order
    ops,            \* per repository, the steps of this call ("x!": x threw)
    visits,         \* per repository, the loop iterations of this call
    log,            \* per repository, the outcome this call printed
    \* ---- main (clean.ts) ----------------------------------------------
    apiKey,         \* process.env.ANTHROPIC_API_KEY is set
    ghToken,        \* process.env.GITHUB_TOKEN or process.env.GH_TOKEN is set
    dryRunEnv,      \* process.env.DRY_RUN === 'true'
    targetRepo,     \* process.env.TARGET_REPO, "" when unset
    mpc,            \* the statement main has reached
    exitCode,       \* the process exit code, -1 while main runs
    done,           \* what main has printed and called, in order
    commits,        \* ctx.commits: the repository of every commit
    mCandidates,    \* candidates: the repository of every candidate
    mProposals,     \* proposals: the repository of every proposal
    \* ---- sweepForCandidates ---------------------------------------------
    sActive,        \* activeRepos, in the order of the Set
    sri,            \* index of the repository the outer loop is at
    spc,            \* "docs", "commits", "details", "files", "done", "thrown"
    sdi,            \* index into DOC_FILES of the next doc file to read
    sShas,          \* commit details getChangedSourceFiles still has to fetch
    sChanged,       \* files: the changed source files found, insertion order
    sfi,            \* index into changedFiles of the next file to read
    sCands,         \* candidates
    sLast,          \* the remote read made last: path, outcome, content
    sHost,          \* what the repositories hold: a doc file, a source file
    \* ---- pure functions --------------------------------------------------
    arg,            \* the argument a function is called with
    ret,            \* [done, val]: whether it has returned, and what
    \* ---- two openCleanPRs calls at once --------------------------------
    race,           \* per call: the statement reached, what its check saw,
                    \* the commit it made
    raceHost        \* git host: the commit clean/<date> points to, its
                    \* pull requests

valVars == <<candidates, vi, vProposals, lastResp, lastOut>>

hostVars == <<files, branch, prs, tree, prBody>>

pubVars == <<proposals, files, branch, prs, tree, prBody, run, isDryRun, ri, pc, workspace,
             sorted, ai, applied, ops, visits, log>>

sweepVars ==
    <<sActive, sri, spc, sdi, sShas, sChanged, sfi, sCands, sLast, sHost>>

fnVars == <<arg, ret>>

raceVars == <<race, raceHost>>

mainVars == <<apiKey, ghToken, dryRunEnv, targetRepo, mpc, exitCode, done,
              commits, mCandidates, mProposals>>

vars == <<candidates, vi, vProposals, lastResp, lastOut,
          proposals, files, branch, prs, tree, prBody, run, isDryRun, ri, pc,
          workspace,
          sorted, ai, applied, ops, visits, log,
          apiKey, ghToken, dryRunEnv, targetRepo, mpc, exitCode, done,
          commits, mCandidates, mProposals,
          sActive, sri, spc, sdi, sShas, sChanged, sfi, sCands, sLast,
          sHost, arg, ret, race, raceHost>>

-----------------------------------------------------------------------------
(* Bounds of the model *)

MaxCands == 2
MaxEdits == 2
MaxLines == 4
MaxProps == 2
MaxRuns == 2
MaxCommits == 2
MaxFileLines == 19
MaxTags == 2
MaxActions == 2

-----------------------------------------------------------------------------
(* Strings *)

EmptyStr == <<"">>

\* JavaScript truthiness of a string: only '' is falsy
Truthy(s) == s # EmptyStr

\* Array.prototype.join('\n') of an array of strings
RECURSIVE JoinLines(_)
JoinLines(arr) ==
    IF arr = <<>> THEN EmptyStr
    ELSE IF Len(arr) = 1 THEN Head(arr)
    ELSE Head(arr) \o JoinLines(Tail(arr))

\* String.prototype.split('\n'): the array of the one-line strings
SplitLines(s) == [i \in 1..Len(s) |-> <<s[i]>>]

Max(a, b) == IF a > b THEN a ELSE b
Min(a, b) == IF a < b THEN a ELSE b

\* Array.prototype.slice(start, end) on a 1-based sequence: negative indices
\* count from the end, indices beyond the array are clamped
JsSlice(arr, start, end) ==
    LET len == Len(arr)
        k == IF start < 0 THEN Max(len + start, 0) ELSE Min(start, len)
        f == IF end < 0 THEN Max(len + end, 0) ELSE Min(end, len)
    IN  [i \in 1..(IF f > k THEN f - k ELSE 0) |-> arr[k + i]]

SeqsUpTo(S, n) == UNION { [1..k -> S] : k \in 0..n }

Distinct(seq) == \A i, j \in 1..Len(seq) : i # j => seq[i] # seq[j]

-----------------------------------------------------------------------------
(* The parts of the state a phase does not touch *)

NoResp == [shape |-> "none"]

ValIdle ==
    /\ candidates = <<>>
    /\ vi = 1
    /\ vProposals = <<>>
    /\ lastResp = NoResp
    /\ lastOut = <<>>

PubIdle ==
    /\ proposals = <<>>
    /\ files = <<>>
    /\ branch = <<>>
    /\ prs = <<>>
    /\ tree = <<>>
    /\ prBody = <<>>
    /\ run = 0
    /\ isDryRun = FALSE
    /\ ri = 1
    /\ pc = "idle"
    /\ workspace = <<>>
    /\ sorted = <<>>
    /\ ai = 1
    /\ applied = <<>>
    /\ ops = <<>>
    /\ visits = <<>>
    /\ log = <<>>

MainIdle ==
    /\ apiKey = TRUE
    /\ ghToken = TRUE
    /\ dryRunEnv = FALSE
    /\ targetRepo = ""
    /\ mpc = "start"
    /\ exitCode = -1
    /\ done = <<>>
    /\ commits = <<>>
    /\ mCandidates = <<>>
    /\ mProposals = <<>>

NoRead == [path |-> "", outcome |-> "none", content |-> <<>>]

SweepIdle ==
    /\ sActive = <<>>
    /\ sri = 1
    /\ spc = "done"
    /\ sdi = 1
    /\ sShas = 0
    /\ sChanged = <<>>
    /\ sfi = 1
    /\ sCands = <<>>
    /\ sLast = NoRead
    /\ sHost = <<>>

NoRet == [done |-> FALSE, val |-> <<>>]

FnIdle ==
    /\ arg = <<>>
    /\ ret = NoRet

RaceIdle ==
    /\ race = <<>>
    /\ raceHost = <<>>

-----------------------------------------------------------------------------
(* Phase 2: Validate *)

\* Candidates as sweepForCandidates builds them: a doc-file candidate spans
\* the whole file, a tag candidate one line.
CandidatePool ==
    { [repo |-> "r1", filePath |-> "README.md", startLine |-> 1, endLine |-> 3,
       original |-> <<"l1", "l2", "l3">>, kind |-> "doc-file"],
      [repo |-> "r1", filePath |-> "src/a.ts", startLine |-> 2, endLine |-> 2,
       original |-> <<"// TODO: remove fallback">>, kind |-> "todo"],
      [repo |-> "r2", filePath |-> "src/b.ts", startLine |-> 1, endLine |-> 1,
       original |-> <<"// FIXME: drop the shim">>, kind |-> "fixme"] }

\* A JSON field that is absent reads as undefined
Undefined == <<>>
UndefConf == "undefined"

\* What the oracle may put into the confidence field: the three documented
\* values, nothing at all, or some other string
ConfValues == {"high", "medium", "low", UndefConf, "HIGH"}
DocConfValues == {"high", "medium", "low", UndefConf}

\* What the oracle may put into the resolved field: a boolean or nothing
\* (undefined is falsy)
ResolvedValues == {"true", "false", "undefined"}
TruthyResolved(v) == v = "true"

\* One element of the doc oracle's JSON array: null, or an object whose line
\* numbers are whatever integers the oracle wrote (the candidate has 3 lines)
EditRanges == {<<1, 1>>, <<2, 3>>, <<0, 4>>}
NullEdit ==
    [isNull |-> TRUE, startLine |-> 0, endLine |-> 0, original |-> EmptyStr,
     replacement |-> EmptyStr, rationale |-> "", confidence |-> UndefConf]
EditPool ==
    { [isNull |-> FALSE, startLine |-> r[1], endLine |-> r[2],
       original |-> <<"l1">>, replacement |-> <<"B">>, rationale |-> "why",
       confidence |-> c] :
         r \in EditRanges, c \in DocConfValues }
    \cup {NullEdit}

\* The outcome of client.messages.create for a doc-file candidate
\*   throw    the call rejects (network error, timeout)
\*   nontext  the first content block is not text: raw is '[]'
\*   garbage  JSON.parse throws
\*   nonarray the text parses to null or to an object, not to an array
\*   array    the text parses to an array of edits
DocResponses ==
    { [shape |-> sh, edits |-> <<>>] :
        sh \in {"throw", "nontext", "garbage", "nonarray"} }
    \cup { [shape |-> "array", edits |-> e] : e \in SeqsUpTo(EditPool, MaxEdits) }

\* The outcome of client.messages.create for a TODO/FIXME candidate
\*   nontext  raw is '{}': every field undefined
\*   jsonnull the text parses to null: result.resolved throws a TypeError
TodoObjects ==
    { [shape |-> "object", resolved |-> r, evidence |-> "ev",
       replacement |-> rep, confidence |-> c] :
         r \in ResolvedValues, rep \in {Undefined, EmptyStr, <<"// NOTE">>},
         c \in ConfValues }
TodoResponses ==
    { [shape |-> sh, resolved |-> "undefined", evidence |-> "",
       replacement |-> Undefined, confidence |-> UndefConf] :
         sh \in {"throw", "nontext", "garbage", "jsonnull"} }
    \cup TodoObjects

\* edits.filter(e => e.confidence === 'high' || e.confidence === 'medium')
KeepEdit(e) == e.confidence = "high" \/ e.confidence = "medium"

\* validateDocCandidate: every failure inside the try block yields []
ValidateDocCandidate(candidate, resp) ==
    IF resp.shape \in {"throw", "garbage", "nonarray"} THEN <<>>
    ELSE IF \E i \in 1..Len(resp.edits) : resp.edits[i].isNull THEN <<>>
    ELSE LET kept == SelectSeq(resp.edits, KeepEdit)
         IN  [i \in 1..Len(kept) |->
                [repo |-> candidate.repo,
                 filePath |-> candidate.filePath,
                 startLine |-> kept[i].startLine,
                 endLine |-> kept[i].endLine,
                 original |-> kept[i].original,
                 replacement |-> kept[i].replacement,
                 rationale |-> kept[i].rationale,
                 confidence |-> kept[i].confidence]]

\* validateTodoCandidate without the confidence floor of its early return
ValidateTodoCandidateNoFloor(candidate, resp) ==
    IF resp.shape \in {"throw", "garbage", "jsonnull"} THEN <<>>
    ELSE IF ~TruthyResolved(resp.resolved) THEN <<>>
    ELSE << [repo |-> candidate.repo,
             filePath |-> candidate.filePath,
             startLine |-> candidate.startLine,
             endLine |-> candidate.endLine,
             original |-> candidate.original,
             replacement |-> IF resp.replacement = Undefined THEN EmptyStr
                             ELSE resp.replacement,
             rationale |-> resp.evidence,
             confidence |-> resp.confidence] >>

\* validateTodoCandidate without the ?? '' behind result.replacement
ValidateTodoCandidateNoDefault(candidate, resp) ==
    IF resp.shape \in {"throw", "garbage", "jsonnull"} THEN <<>>
    ELSE IF ~TruthyResolved(resp.resolved) \/ resp.confidence = "low" THEN <<>>
    ELSE << [repo |-> candidate.repo,
             filePath |-> candidate.filePath,
             startLine |-> candidate.startLine,
             endLine |-> candidate.endLine,
             original |-> candidate.original,
             replacement |-> resp.replacement,
             rationale |-> resp.evidence,
             confidence |-> resp.confidence] >>

\* validateTodoCandidate: null is the empty sequence, a proposal a sequence
\* of one
ValidateTodoCandidate(candidate, resp) ==
    IF resp.shape \in {"throw", "garbage", "jsonnull"} THEN <<>>
    ELSE IF ~TruthyResolved(resp.resolved) \/ resp.confidence = "low" THEN <<>>
    ELSE << [repo |-> candidate.repo,
             filePath |-> candidate.filePath,
             startLine |-> candidate.startLine,
             endLine |-> candidate.endLine,
             original |-> candidate.original,
             replacement |-> IF resp.replacement = Undefined THEN EmptyStr
                             ELSE resp.replacement,
             rationale |-> resp.evidence,
             confidence |-> resp.confidence] >>

\* A sweep yields each (repo, file, line) at most once
InitValidate ==
    /\ RaceIdle
    /\ PubIdle
    /\ MainIdle
    /\ SweepIdle
    /\ FnIdle
    /\ candidates \in
         { cs \in UNION { [1..k -> CandidatePool] : k \in 1..MaxCands } :
             Distinct(cs) }
    /\ vi = 1
    /\ vProposals = <<>>
    /\ lastResp = NoResp
    /\ lastOut = <<>>

\* The doc-file iteration if validateDocCandidate had no try/catch: a call
\* that rejects or an answer that does not parse throws out of the loop, and
\* the proposals collected so far are never returned
ValidateDocUncaught ==
    /\ vi <= Len(candidates)
    /\ candidates[vi].kind = "doc-file"
    /\ \E resp \in DocResponses :
         LET edits == ValidateDocCandidate(candidates[vi], resp)
             thrown == resp.shape \in {"throw", "garbage", "nonarray"}
         IN  /\ vProposals' = IF thrown THEN <<>> ELSE vProposals \o edits
             /\ vi' = IF thrown THEN Len(candidates) + 1 ELSE vi + 1
             /\ lastResp' = resp
             /\ lastOut' = edits
    /\ UNCHANGED candidates
    /\ UNCHANGED pubVars
    /\ UNCHANGED <<mainVars, sweepVars, fnVars, raceVars>>

\* One iteration of the for-loop of validateCandidates on a doc-file
\* candidate
ValidateDoc ==
    /\ vi <= Len(candidates)
    /\ candidates[vi].kind = "doc-file"
    /\ \E resp \in DocResponses :
         LET edits == ValidateDocCandidate(candidates[vi], resp)
         IN  /\ vProposals' = vProposals \o edits
             /\ lastResp' = resp
             /\ lastOut' = edits
    /\ vi' = vi + 1
    /\ UNCHANGED candidates
    /\ UNCHANGED pubVars
    /\ UNCHANGED <<mainVars, sweepVars, fnVars, raceVars>>

\* One iteration of the for-loop of validateCandidates on a tag candidate
ValidateTodo ==
    /\ vi <= Len(candidates)
    /\ candidates[vi].kind # "doc-file"
    /\ \E resp \in TodoResponses :
         LET proposal == ValidateTodoCandidate(candidates[vi], resp)
         IN  /\ vProposals' = vProposals \o proposal
             /\ lastResp' = resp
             /\ lastOut' = proposal
    /\ vi' = vi + 1
    /\ UNCHANGED candidates
    /\ UNCHANGED pubVars
    /\ UNCHANGED <<mainVars, sweepVars, fnVars, raceVars>>

NextValidate == ValidateDoc \/ ValidateTodo

SpecValidate == InitValidate /\ [][NextValidate]_vars

\* The oracle's answer to the last candidate holds entries, and all of them
\* are of low confidence
OnlyLowEntries(resp) ==
    \/ /\ resp.shape = "array"
       /\ Len(resp.edits) > 0
       /\ \A i \in 1..Len(resp.edits) :
            ~resp.edits[i].isNull /\ resp.edits[i].confidence = "low"
    \/ /\ resp.shape = "object"
       /\ resp.confidence = "low"

\* C1: validateCandidates never returns a proposal of confidence low, and a
\* candidate whose oracle answer holds only low-confidence entries
\* contributes no proposal.
NoLowConfidenceLeak ==
    /\ \A i \in 1..Len(vProposals) : vProposals[i].confidence # "low"
    /\ OnlyLowEntries(lastResp) => lastOut = <<>>

\* An answer of two low-confidence edits came back after an earlier
\* candidate had contributed a proposal
NoLowConfidenceLeakWitness ==
    /\ vi = 3
    /\ lastResp.shape = "array"
    /\ Len(lastResp.edits) = 2
    /\ OnlyLowEntries(lastResp)
    /\ lastOut = <<>>
    /\ Len(vProposals) > 0

\* C2: a tag candidate yields a proposal only if the oracle reports
\* resolved = true with confidence exactly high or medium, hence every
\* proposal leaving the validator has confidence high or medium.
TagPolicyHighOrMediumOnly ==
    /\ (vi > 1 /\ candidates[vi - 1].kind # "doc-file" /\ lastOut # <<>>) =>
          /\ lastResp.shape = "object"
          /\ lastResp.resolved = "true"
          /\ lastResp.confidence \in {"high", "medium"}
    /\ \A i \in 1..Len(vProposals) :
          vProposals[i].confidence \in {"high", "medium"}

\* The oracle call failed, or its answer is not of the expected shape
FailedResponse(resp) ==
    \/ resp.shape \in {"throw", "garbage", "nonarray", "jsonnull"}
    \/ /\ resp.shape = "array"
       /\ \E i \in 1..Len(resp.edits) : resp.edits[i].isNull

\* C13: validateCandidates never throws and goes through the candidates one
\* by one; a candidate whose oracle call fails or answers in another shape
\* adds nothing, and the proposals of the candidates before it stay as they
\* are.
OracleFailureIsLocal ==
    /\ [](vi <= Len(candidates) => ENABLED NextValidate)
    /\ [][/\ vi <= Len(candidates)
          /\ vi' = vi + 1
          /\ vProposals' = vProposals \o lastOut'
          /\ FailedResponse(lastResp') => lastOut' = <<>>]_vars

\* The oracle call for the second candidate rejected after the first one
\* had given a proposal, which is still there
OracleFailureIsLocalWitness ==
    /\ vi = 3
    /\ lastResp.shape = "throw"
    /\ lastOut = <<>>
    /\ Len(vProposals) = 1

\* C14: every proposal of the doc-file policy lies inside the file of its
\* candidate: 1 <= startLine <= endLine <= the file's line count.
DocProposalsInsideFile ==
    \A i \in 1..Len(vProposals) :
       \A k \in 1..Len(candidates) :
          (/\ candidates[k].kind = "doc-file"
           /\ candidates[k].repo = vProposals[i].repo
           /\ candidates[k].filePath = vProposals[i].filePath) =>
             /\ 1 <= vProposals[i].startLine
             /\ vProposals[i].startLine <= vProposals[i].endLine
             /\ vProposals[i].endLine <= Len(candidates[k].original)

\* C15: a tag candidate gives at most one proposal, which has the
\* candidate's repo, filePath, startLine, endLine and original and the
\* oracle's replacement, the empty string when the oracle gave none.
TagProposalKeepsCandidate ==
    (vi > 1 /\ candidates[vi - 1].kind # "doc-file") =>
        /\ Len(lastOut) <= 1
        /\ \A i \in 1..Len(lastOut) :
             /\ lastOut[i].repo = candidates[vi - 1].repo
             /\ lastOut[i].filePath = candidates[vi - 1].filePath
             /\ lastOut[i].startLine = candidates[vi - 1].startLine
             /\ lastOut[i].endLine = candidates[vi - 1].endLine
             /\ lastOut[i].original = candidates[vi - 1].original
             /\ lastOut[i].replacement =
                  IF lastResp.replacement \in {Undefined, EmptyStr}
                  THEN EmptyStr ELSE lastResp.replacement
             /\ lastResp.replacement \in {Undefined, EmptyStr} =>
                  ~Truthy(lastOut[i].replacement)

\* The oracle resolved the TODO of src/a.ts line 2 without a replacement:
\* the proposal deletes that line
TagProposalKeepsCandidateWitness ==
    /\ vi > 1
    /\ candidates[vi - 1].kind = "todo"
    /\ lastResp.shape = "object"
    /\ lastResp.replacement = Undefined
    /\ Len(lastOut) = 1
    /\ lastOut[1].filePath = "src/a.ts"
    /\ lastOut[1].startLine = 2
    /\ lastOut[1].replacement = EmptyStr

-----------------------------------------------------------------------------
(* Phase 3: PR creation *)

Repos == {"r1", "r2", "r3"}
FileNames == {"README.md", "src/a.ts"}

\* A file that is not in the clone
Missing == <<>>

\* applyProposal with the lines after the range taken from endLine - 1
ApplyProposalOffByOne(content, proposal) ==
    LET lines == SplitLines(content)
        before == JsSlice(lines, 0, proposal.startLine - 1)
        after == JsSlice(lines, proposal.endLine - 1, Len(lines))
        middle == IF Truthy(proposal.replacement)
                  THEN <<proposal.replacement>> ELSE <<>>
    IN  JoinLines(before \o middle \o after)

\* applyProposal on the content of the proposal's file
ApplyProposal(content, proposal) ==
    LET lines == SplitLines(content)
        before == JsSlice(lines, 0, proposal.startLine - 1)
        after == JsSlice(lines, proposal.endLine, Len(lines))
        middle == IF Truthy(proposal.replacement)
                  THEN <<proposal.replacement>> ELSE <<>>
    IN  JoinLines(before \o middle \o after)

\* The comparator (a, b) => a.startLine - b.startLine
ByStartLineAsc(a, b) == a.startLine - b.startLine

\* The comparator (a, b) => b.startLine - a.startLine
ByStartLineDesc(a, b) == b.startLine - a.startLine

\* Array.prototype.sort is stable: x goes behind every element that does not
\* compare greater than it
InsertSorted(s, x) ==
    LET k == Cardinality({ i \in 1..Len(s) : ByStartLineDesc(s[i], x) <= 0 })
    IN  SubSeq(s, 1, k) \o <<x>> \o SubSeq(s, k + 1, Len(s))

RECURSIVE SortStable(_)
SortStable(seq) ==
    IF seq = <<>> THEN <<>>
    ELSE InsertSorted(SortStable(SubSeq(seq, 1, Len(seq) - 1)), seq[Len(seq)])

\* A copy of the proposals left in input order
UnsortedCopy(repoProposals) == repoProposals

\* [...repoProposals].sort((a, b) => b.startLine - a.startLine)
SortedCopy(repoProposals) == SortStable(repoProposals)

\* The grouping loop with set(p.repo, [p]) in place of list.push(p)
RECURSIVE ByRepoOverwrite(_)
ByRepoOverwrite(ps) ==
    IF ps = <<>> THEN <<>>
    ELSE LET rest == ByRepoOverwrite(SubSeq(ps, 1, Len(ps) - 1))
             p == ps[Len(ps)]
         IN  IF \E k \in 1..Len(rest) : rest[k].repo = p.repo
             THEN [k \in 1..Len(rest) |->
                     IF rest[k].repo = p.repo
                     THEN [repo |-> p.repo, list |-> <<p>>]
                     ELSE rest[k]]
             ELSE Append(rest, [repo |-> p.repo, list |-> <<p>>])

\* const byRepo = new Map(); for (const p of proposals) { list =
\* byRepo.get(p.repo) ?? []; list.push(p); byRepo.set(p.repo, list) }:
\* the entries of the map in insertion order
RECURSIVE ByRepo(_)
ByRepo(ps) ==
    IF ps = <<>> THEN <<>>
    ELSE LET rest == ByRepo(SubSeq(ps, 1, Len(ps) - 1))
             p == ps[Len(ps)]
         IN  IF \E k \in 1..Len(rest) : rest[k].repo = p.repo
             THEN [k \in 1..Len(rest) |->
                     IF rest[k].repo = p.repo
                     THEN [repo |-> p.repo, list |-> Append(rest[k].list, p)]
                     ELSE rest[k]]
             ELSE Append(rest, [repo |-> p.repo, list |-> <<p>>])

\* The keys of byRepo: a Map iterates in insertion order, the order in
\* which the repositories first occur among the proposals
RECURSIVE GroupOrder(_)
GroupOrder(ps) ==
    IF ps = <<>> THEN <<>>
    ELSE LET rest == GroupOrder(SubSeq(ps, 1, Len(ps) - 1))
             r == ps[Len(ps)].repo
         IN  IF \E i \in 1..Len(rest) : rest[i] = r THEN rest
             ELSE Append(rest, r)

\* byRepo.get(repo): the repository's proposals in input order
RepoProposals(ps, repo) == SelectSeq(ps, LAMBDA p : p.repo = repo)

Order == GroupOrder(proposals)
CurRepo == Order[ri]

\* Where the loop over byRepo goes once the body is done with entry i
AfterRepo(i) ==
    IF i < Len(Order) THEN [ri |-> i + 1, pc |-> "loop"]
    ELSE [ri |-> i + 1, pc |-> "idle"]

\* An exception that leaves openCleanPRs instead of being caught
FailureAborts(i) == [ri |-> i + 1, pc |-> "idle"]

\* The catch block of the loop body: warn, then go on with the next entry
AfterFailure(i) == AfterRepo(i)

\* The dry-run flag ignored
NeverPreview == FALSE

\* if (isDryRun) { ...; continue }
IsPreview == isDryRun

\* buildPRBody(repoProposals, date) and formatProposal
\* The strings of the body are written in ASCII: ' stands for the backtick,
\* - for the en dash and for the middle dot, and the robot of the last line
\* is left out.

RunDate == "2026-02-28"

\* Array.prototype.map((l) => prefix + l) over the lines of a string
Prefixed(prefix, str) == [k \in 1..Len(str) |-> prefix \o str[k]]

\* formatProposal
FormatProposal(p) ==
    JoinLines(
      << <<"### '" \o p.filePath \o "' line " \o ToString(p.startLine)
             \o (IF p.endLine > p.startLine
                 THEN "-" \o ToString(p.endLine) ELSE "")>>,
         <<"**" \o (IF Truthy(p.replacement) THEN "Updated" ELSE "Removed")
             \o "** - _" \o p.rationale \o "_">>,
         <<"">>,
         <<"'''diff">>,
         Prefixed("- ", p.original) >>
      \o (IF Truthy(p.replacement)
          THEN [k \in 1..Len(p.replacement) |->
                  <<"+ " \o p.replacement[k]>>]
          ELSE <<>>)
      \o << <<"'''">> >>)

\* xs.forEach((p) => sections.push(formatProposal(p), ''))
RECURSIVE PushBlocks(_)
PushBlocks(ps) ==
    IF ps = <<>> THEN <<>>
    ELSE <<FormatProposal(Head(ps)), <<"">>>> \o PushBlocks(Tail(ps))

\* if (xs.length) { push the heading, '', and the blocks }
Section(title, ps) ==
    IF Len(ps) # 0
    THEN << <<"## " \o title \o " confidence (" \o ToString(Len(ps)) \o ")">>,
            <<"">> >> \o PushBlocks(ps)
    ELSE <<>>

\* buildPRBody with the medium proposals filtered as the high ones
BuildPRBodyMediumAsHigh(ps, date) ==
    LET high == SelectSeq(ps, LAMBDA p : p.confidence = "high")
        medium == SelectSeq(ps, LAMBDA p : p.confidence = "high")
    IN  JoinLines(
          << <<"## Stale documentation/comments - " \o date>>,
             <<"">>,
             <<"Validated by Claude Opus. Only high and medium confidence edits are included.">>,
             <<"Generated by [daily-cleaner](https://github.com/ojfbot/daily-logger) - runs nightly after the daily-logger.">>,
             <<"">> >>
          \o Section("High", high)
          \o Section("Medium", medium)
          \o << <<"---">>, <<"*Claude Code*">> >>)

\* buildPRBody
BuildPRBody(ps, date) ==
    LET high == SelectSeq(ps, LAMBDA p : p.confidence = "high")
        medium == SelectSeq(ps, LAMBDA p : p.confidence = "medium")
    IN  JoinLines(
          << <<"## Stale documentation/comments - " \o date>>,
             <<"">>,
             <<"Validated by Claude Opus. Only high and medium confidence edits are included.">>,
             <<"Generated by [daily-cleaner](https://github.com/ojfbot/daily-logger) - runs nightly after the daily-logger.">>,
             <<"">> >>
          \o Section("High", high)
          \o Section("Medium", medium)
          \o << <<"---">>, <<"*Claude Code*">> >>)

NoWorkspace == <<>>
NoBody == <<>>

\* An openCleanPRs call starts: the proposals are grouped by repository
StartRun(dry) ==
    /\ pc = "idle"
    /\ run < MaxRuns
    /\ run' = run + 1
    /\ isDryRun' = dry
    /\ ri' = 1
    /\ pc' = IF Order = <<>> THEN "idle" ELSE "loop"
    /\ workspace' = NoWorkspace
    /\ sorted' = <<>>
    /\ ai' = 1
    /\ applied' = <<>>
    /\ ops' = [r \in Repos |-> <<>>]
    /\ visits' = [r \in Repos |-> 0]
    /\ log' = [r \in Repos |-> "none"]
    /\ UNCHANGED <<proposals, hostVars, valVars, mainVars, sweepVars, fnVars,
                   raceVars>>

StartLive == StartRun(FALSE)
StartDry == StartRun(TRUE)

\* Dry run: the repository's proposals are printed, nothing else happens
Preview ==
    /\ pc = "loop"
    /\ IsPreview
    /\ visits' = [visits EXCEPT ![CurRepo] = @ + 1]
    /\ log' = [log EXCEPT ![CurRepo] = "preview"]
    /\ ri' = AfterRepo(ri).ri
    /\ pc' = AfterRepo(ri).pc
    /\ UNCHANGED <<proposals, hostVars, run, isDryRun, workspace, sorted, ai,
                   applied, ops, valVars, mainVars, sweepVars, fnVars,
                   raceVars>>

\* The skip message printed without leaving the loop body
CheckFoundNoSkip ==
    /\ pc = "loop"
    /\ ~isDryRun
    /\ branch[Order[ri]]
    /\ visits' = [visits EXCEPT ![Order[ri]] = @ + 1]
    /\ ops' = [ops EXCEPT ![Order[ri]] = Append(@, "check")]
    /\ log' = [log EXCEPT ![Order[ri]] = "skipped"]
    /\ pc' = "clone"
    /\ UNCHANGED <<proposals, hostVars, run, isDryRun, ri, workspace, sorted,
                   ai, applied, valVars, mainVars, sweepVars, fnVars,
                   raceVars>>

\* tryRun(gh api .../git/ref/heads/clean/<date>) returns the ref: skip
CheckFound ==
    /\ pc = "loop"
    /\ ~IsPreview
    /\ branch[CurRepo]
    /\ visits' = [visits EXCEPT ![CurRepo] = @ + 1]
    /\ ops' = [ops EXCEPT ![CurRepo] = Append(@, "check")]
    /\ log' = [log EXCEPT ![CurRepo] = "skipped"]
    /\ ri' = AfterRepo(ri).ri
    /\ pc' = AfterRepo(ri).pc
    /\ UNCHANGED <<proposals, hostVars, run, isDryRun, workspace, sorted, ai,
                   applied, valVars, mainVars, sweepVars, fnVars, raceVars>>

\* tryRun returns null: the ref is absent, or the lookup itself failed
CheckAbsent ==
    /\ pc = "loop"
    /\ ~IsPreview
    /\ visits' = [visits EXCEPT ![CurRepo] = @ + 1]
    /\ ops' = [ops EXCEPT ![CurRepo] = Append(@, "check")]
    /\ pc' = "clone"
    /\ UNCHANGED <<proposals, hostVars, run, isDryRun, ri, workspace, sorted,
                   ai, applied, log, valVars, mainVars, sweepVars, fnVars,
                   raceVars>>

\* A step of the try block throws: the catch block warns
Fail ==
    /\ log' = [log EXCEPT ![CurRepo] = "failed"]
    /\ ri' = AfterFailure(ri).ri
    /\ pc' = AfterFailure(ri).pc

\* mkdtempSync and gh repo clone succeed; the proposals are sorted
CloneOk ==
    /\ pc = "clone"
    /\ ops' = [ops EXCEPT ![CurRepo] = Append(@, "clone")]
    /\ workspace' = files[CurRepo]
    /\ sorted' = SortedCopy(RepoProposals(proposals, CurRepo))
    /\ ai' = 1
    /\ applied' = <<>>
    /\ pc' = "apply"
    /\ UNCHANGED <<proposals, hostVars, run, isDryRun, ri, visits, log,
                   valVars, mainVars, sweepVars, fnVars, raceVars>>

CloneFail ==
    /\ pc = "clone"
    /\ ops' = [ops EXCEPT ![CurRepo] = Append(@, "clone!")]
    /\ Fail
    /\ UNCHANGED <<proposals, hostVars, run, isDryRun, workspace, sorted, ai,
                   applied, visits, valVars, mainVars, sweepVars, fnVars,
                   raceVars>>

\* The loop over sorted left after its first applyProposal call
ApplyOkOnce ==
    /\ pc = "apply"
    /\ ai <= Len(sorted)
    /\ LET p == sorted[ai]
       IN  /\ workspace[p.filePath] # Missing
           /\ workspace' = [workspace EXCEPT
                  ![p.filePath] = ApplyProposal(workspace[p.filePath], p)]
           /\ applied' = Append(applied, p)
    /\ ops' = [ops EXCEPT ![CurRepo] = Append(@, "apply")]
    /\ ai' = ai + 1
    /\ pc' = "commit"
    /\ UNCHANGED <<proposals, hostVars, run, isDryRun, ri, sorted, visits,
                   log, valVars, mainVars, sweepVars, fnVars, raceVars>>

\* applyProposal(tmpDir, sorted[ai]) rewrites the file
ApplyOk ==
    /\ pc = "apply"
    /\ ai <= Len(sorted)
    /\ LET p == sorted[ai]
       IN  /\ workspace[p.filePath] # Missing
           /\ workspace' = [workspace EXCEPT
                  ![p.filePath] = ApplyProposal(workspace[p.filePath], p)]
           /\ applied' = Append(applied, p)
    /\ ops' = [ops EXCEPT ![CurRepo] = Append(@, "apply")]
    /\ ai' = ai + 1
    /\ pc' = IF ai + 1 > Len(sorted) THEN "commit" ELSE "apply"
    /\ UNCHANGED <<proposals, hostVars, run, isDryRun, ri, sorted, visits,
                   log, valVars, mainVars, sweepVars, fnVars, raceVars>>

\* readFileSync throws: the proposal's file is not in the clone
ApplyFail ==
    /\ pc = "apply"
    /\ ai <= Len(sorted)
    /\ workspace[sorted[ai].filePath] = Missing
    /\ ops' = [ops EXCEPT ![CurRepo] = Append(@, "apply!")]
    /\ Fail
    /\ UNCHANGED <<proposals, hostVars, run, isDryRun, workspace, sorted, ai,
                   applied, visits, valVars, mainVars, sweepVars, fnVars,
                   raceVars>>

\* git config, checkout -b, add -A and commit succeed; git commit needs a
\* change to commit
CommitOk ==
    /\ pc = "commit"
    /\ workspace # files[CurRepo]
    /\ ops' = [ops EXCEPT ![CurRepo] = Append(@, "commit")]
    /\ pc' = "push"
    /\ UNCHANGED <<proposals, hostVars, run, isDryRun, ri, workspace, sorted,
                   ai, applied, visits, log, valVars, mainVars, sweepVars, fnVars,
                   raceVars>>

CommitFail ==
    /\ pc = "commit"
    /\ ops' = [ops EXCEPT ![CurRepo] = Append(@, "commit!")]
    /\ Fail
    /\ UNCHANGED <<proposals, hostVars, run, isDryRun, workspace, sorted, ai,
                   applied, visits, valVars, mainVars, sweepVars, fnVars,
                   raceVars>>

\* git push -u origin clean/<date> creates the branch; the host rejects the
\* push of a new commit to a branch that exists
PushOk ==
    /\ pc = "push"
    /\ ~branch[CurRepo]
    /\ ops' = [ops EXCEPT ![CurRepo] = Append(@, "push")]
    /\ branch' = [branch EXCEPT ![CurRepo] = TRUE]
    /\ tree' = [tree EXCEPT ![CurRepo] = workspace]
    /\ pc' = "pr"
    /\ UNCHANGED <<proposals, files, prs, prBody, run, isDryRun, ri, workspace,
                   sorted, ai, applied, visits, log, valVars, mainVars, sweepVars, fnVars,
                   raceVars>>

PushFail ==
    /\ pc = "push"
    /\ ops' = [ops EXCEPT ![CurRepo] = Append(@, "push!")]
    /\ Fail
    /\ UNCHANGED <<proposals, hostVars, run, isDryRun, workspace, sorted, ai,
                   applied, visits, valVars, mainVars, sweepVars, fnVars,
                   raceVars>>

\* gh pr create succeeds: the success line carries the URL
PrOk ==
    /\ pc = "pr"
    /\ ops' = [ops EXCEPT ![CurRepo] = Append(@, "pr")]
    /\ prs' = [prs EXCEPT ![CurRepo] = @ + 1]
    /\ prBody' = [prBody EXCEPT ![CurRepo] =
                     BuildPRBody(RepoProposals(proposals, CurRepo), RunDate)]
    /\ log' = [log EXCEPT ![CurRepo] = "opened"]
    /\ ri' = AfterRepo(ri).ri
    /\ pc' = AfterRepo(ri).pc
    /\ UNCHANGED <<proposals, files, branch, tree, run, isDryRun, workspace,
                   sorted, ai, applied, visits, valVars, mainVars, sweepVars, fnVars,
                   raceVars>>

\* gh pr create fails inside tryRun: prUrl is null and the same success
\* line is printed
PrCreateFail ==
    /\ pc = "pr"
    /\ ops' = [ops EXCEPT ![CurRepo] = Append(@, "pr!")]
    /\ log' = [log EXCEPT ![CurRepo] = "opened"]
    /\ ri' = AfterRepo(ri).ri
    /\ pc' = AfterRepo(ri).pc
    /\ UNCHANGED <<proposals, hostVars, run, isDryRun, workspace, sorted, ai,
                   applied, visits, valVars, mainVars, sweepVars, fnVars,
                   raceVars>>

\* writeFileSync of .pr-body.md throws before gh pr create is run
PrBodyFail ==
    /\ pc = "pr"
    /\ ops' = [ops EXCEPT ![CurRepo] = Append(@, "body!")]
    /\ Fail
    /\ UNCHANGED <<proposals, hostVars, run, isDryRun, workspace, sorted, ai,
                   applied, visits, valVars, mainVars, sweepVars, fnVars,
                   raceVars>>

-----------------------------------------------------------------------------
(* The patch applier of one repository: clone, sort, apply *)

Letters == <<"a", "b", "c", "d", "e", "f", "g", "h">>
SrcContent == <<"x", "y", "z">>
ReadmeContent == <<"a", "b", "c", "d">>

DefaultFiles ==
    [f \in FileNames |-> IF f = "README.md" THEN ReadmeContent ELSE SrcContent]

\* A README of MaxLines lines, the last of which may be empty (a file that
\* ends with a newline)
ReadmeContents ==
    { SubSeq(Letters, 1, MaxLines),
      SubSeq(Letters, 1, MaxLines - 1) \o <<"">> }

\* What a proposal may put in place of its range: nothing, one line, two lines
Replacements == {EmptyStr, <<"B">>, <<"X", "Y">>}

MkProposal(repo, filePath, content, a, b, rep, conf) ==
    [repo |-> repo, filePath |-> filePath, startLine |-> a, endLine |-> b,
     original |-> SubSeq(content, a, b), replacement |-> rep,
     rationale |-> "why", confidence |-> conf]

\* Proposals with valid ranges on the files of r1: any range of the README
\* (doc-file policy), single tagged lines of the source file (tag policy)
ApplyPool(fs) ==
    { MkProposal("r1", "README.md", fs["README.md"], a, b, rep, "high") :
        a \in 1..Len(fs["README.md"]), b \in 1..Len(fs["README.md"]),
        rep \in Replacements }
    \cup
    { MkProposal("r1", "src/a.ts", fs["src/a.ts"], a, a, EmptyStr, "medium") :
        a \in 1..Len(fs["src/a.ts"]) }

ValidRange(p) == p.startLine <= p.endLine

InitApply ==
    /\ RaceIdle
    /\ ValIdle
    /\ MainIdle
    /\ SweepIdle
    /\ FnIdle
    /\ \E c \in ReadmeContents :
         files = [r \in Repos |->
                    IF r = "r1" THEN [DefaultFiles EXCEPT !["README.md"] = c]
                    ELSE DefaultFiles]
    /\ proposals \in
         UNION { [1..k -> { p \in ApplyPool(files["r1"]) : ValidRange(p) }] :
                   k \in 1..MaxProps }
    /\ branch = [r \in Repos |-> FALSE]
    /\ prs = [r \in Repos |-> 0]
    /\ tree = [r \in Repos |-> NoWorkspace]
    /\ prBody = [r \in Repos |-> NoBody]
    /\ run = 0
    /\ isDryRun = FALSE
    /\ ri = 1
    /\ pc = "idle"
    /\ workspace = NoWorkspace
    /\ sorted = <<>>
    /\ ai = 1
    /\ applied = <<>>
    /\ ops = [r \in Repos |-> <<>>]
    /\ visits = [r \in Repos |-> 0]
    /\ log = [r \in Repos |-> "none"]

NextApply == StartLive \/ CheckAbsent \/ CloneOk \/ ApplyOk

SpecApply == InitApply /\ [][NextApply]_vars

PropsOn(ps, f) == SelectSeq(ps, LAMBDA p : p.filePath = f)

ValidIn(ps, content) ==
    \A k \in 1..Len(ps) :
        1 <= ps[k].startLine /\ ps[k].startLine <= ps[k].endLine
                             /\ ps[k].endLine <= Len(content)

PairwiseDisjoint(ps) ==
    \A j, k \in 1..Len(ps) :
        j # k => ps[j].endLine < ps[k].startLine \/ ps[k].endLine < ps[j].startLine

\* Lines 1..n of the original with every range replaced at once: a range
\* gives its replacement's lines at its first line and nothing at the others
RECURSIVE ReplacedUpTo(_, _, _)
ReplacedUpTo(content, ps, n) ==
    IF n = 0 THEN <<>>
    ELSE LET starting == { k \in 1..Len(ps) : ps[k].startLine = n }
             covering == { k \in 1..Len(ps) :
                             ps[k].startLine <= n /\ n <= ps[k].endLine }
             piece == IF starting # {}
                      THEN LET rep == ps[CHOOSE k \in starting : TRUE].replacement
                           IN  IF rep = EmptyStr THEN <<>> ELSE rep
                      ELSE IF covering # {} THEN <<>>
                      ELSE <<content[n]>>
         IN  ReplacedUpTo(content, ps, n - 1) \o piece

Simultaneous(content, ps) ==
    LET flat == ReplacedUpTo(content, ps, Len(content))
    IN  IF flat = <<>> THEN EmptyStr ELSE flat

\* C3: when the proposals on a file have valid, pairwise disjoint ranges,
\* the applyProposal calls of openCleanPRs leave the file that results from
\* replacing every range at once in the original line numbering.
MultiEditEqualsSimultaneous ==
    pc = "commit" =>
        \A f \in FileNames :
            LET ps == PropsOn(RepoProposals(proposals, CurRepo), f)
            IN  (ValidIn(ps, files[CurRepo][f]) /\ PairwiseDisjoint(ps)) =>
                    workspace[f] = Simultaneous(files[CurRepo][f], ps)

\* [a,b,c,d] with (line 2 -> B) and (line 4 deleted), handed over in
\* ascending order, has become [a,B,c]
MultiEditEqualsSimultaneousWitness ==
    /\ pc = "commit"
    /\ files["r1"]["README.md"] = <<"a", "b", "c", "d">>
    /\ proposals =
         << MkProposal("r1", "README.md", files["r1"]["README.md"], 2, 2,
                       <<"B">>, "high"),
            MkProposal("r1", "README.md", files["r1"]["README.md"], 4, 4,
                       EmptyStr, "high") >>
    /\ Len(applied) = 2
    /\ workspace["README.md"] = <<"a", "B", "c">>

\* C4 as stated: within a file the edits are applied in strictly descending
\* startLine order.
AppliedStrictlyDescending ==
    \A j, k \in 1..Len(applied) :
        (j < k /\ applied[j].filePath = applied[k].filePath) =>
            applied[j].startLine > applied[k].startLine

\* C4 as amended: within a file the edits are applied in non-increasing
\* startLine order, hence strictly descending among proposals of distinct
\* startLine.
AppliedNonIncreasing ==
    \A j, k \in 1..Len(applied) :
        (j < k /\ applied[j].filePath = applied[k].filePath) =>
            applied[j].startLine >= applied[k].startLine

\* Two proposals of one file handed over in ascending order were applied in
\* descending order
AppliedNonIncreasingWitness ==
    /\ Len(proposals) = 2
    /\ proposals[1].filePath = proposals[2].filePath
    /\ proposals[1].startLine < proposals[2].startLine
    /\ Len(applied) = 2
    /\ applied[1] = proposals[2]
    /\ applied[2] = proposals[1]

-----------------------------------------------------------------------------
(* Repeated openCleanPRs calls for one date over several repositories *)

\* Validated proposals of three repositories
PublishPool ==
    { MkProposal("r1", "README.md", ReadmeContent, 2, 2, <<"B">>, "high"),
      MkProposal("r1", "README.md", ReadmeContent, 4, 4, EmptyStr, "medium"),
      MkProposal("r2", "src/a.ts", SrcContent, 1, 1, EmptyStr, "high"),
      MkProposal("r3", "README.md", ReadmeContent, 1, 1, <<"X">>, "medium"),
      MkProposal("r1", "src/a.ts", SrcContent, 2, 2, EmptyStr, UndefConf) }

\* The default branches at clone time: r2 may have lost src/a.ts since the
\* sweep read it
HostFiles ==
    { [r \in Repos |-> DefaultFiles],
      [r \in Repos |->
         IF r = "r2" THEN [DefaultFiles EXCEPT !["src/a.ts"] = Missing]
         ELSE DefaultFiles] }

InitPublish ==
    /\ RaceIdle
    /\ ValIdle
    /\ MainIdle
    /\ SweepIdle
    /\ FnIdle
    /\ files \in HostFiles
    /\ proposals \in { ps \in SeqsUpTo(PublishPool, MaxProps) : Distinct(ps) }
    /\ branch = [r \in Repos |-> FALSE]
    /\ prs = [r \in Repos |-> 0]
    /\ tree = [r \in Repos |-> NoWorkspace]
    /\ prBody = [r \in Repos |-> NoBody]
    /\ run = 0
    /\ isDryRun = FALSE
    /\ ri = 1
    /\ pc = "idle"
    /\ workspace = NoWorkspace
    /\ sorted = <<>>
    /\ ai = 1
    /\ applied = <<>>
    /\ ops = [r \in Repos |-> <<>>]
    /\ visits = [r \in Repos |-> 0]
    /\ log = [r \in Repos |-> "none"]

NextPublish ==
    \/ StartLive
    \/ StartDry
    \/ Preview
    \/ CheckFound
    \/ CheckAbsent
    \/ CloneOk
    \/ CloneFail
    \/ ApplyOk
    \/ ApplyFail
    \/ CommitOk
    \/ CommitFail
    \/ PushOk
    \/ PushFail
    \/ PrOk
    \/ PrCreateFail
    \/ PrBodyFail

SpecPublish == InitPublish /\ [][NextPublish]_vars

Last(seq) == seq[Len(seq)]
Has(seq, x) == \E k \in 1..Len(seq) : seq[k] = x
InOrder(r) == \E k \in 1..Len(Order) : Order[k] = r

\* A live call has returned
LiveRunDone == pc = "idle" /\ run >= 1 /\ ~isDryRun

\* C5 as stated, for the runs that follow a push: once clean/<date> exists
\* upstream exactly one pull request has been opened for the repository,
\* however many calls have run, and a call that finds the branch does
\* nothing but the lookup.
ExactlyOnePullRequest ==
    /\ \A r \in Repos : (pc = "idle" /\ branch[r]) => prs[r] = 1
    /\ \A r \in Repos : log[r] = "skipped" => ops[r] = <<"check">>

\* C5 as amended: the calls open at most one pull request for the
\* repository, exactly one once a call got through clone, apply, commit, push
\* and pull-request creation; a call that finds the branch does nothing but
\* the lookup.
AtMostOnePullRequest ==
    /\ \A r \in Repos : prs[r] <= 1
    /\ \A r \in Repos : (ops[r] # <<>> /\ Last(ops[r]) = "pr") => prs[r] = 1
    /\ \A r \in Repos : log[r] = "skipped" => ops[r] = <<"check">>

\* A second live call found the branch of a repository whose pull request
\* the first call had opened, and skipped it
AtMostOnePullRequestWitness ==
    /\ LiveRunDone
    /\ run = 2
    /\ \E r \in Repos :
         /\ InOrder(r)
         /\ log[r] = "skipped"
         /\ prs[r] = 1

\* C6: in a live call every repository of the grouping is attempted exactly
\* once, whatever happened to the others, and a repository whose own steps
\* all succeeded has its pull request.
FaultIsolation ==
    /\ \A r \in Repos : visits[r] <= 1
    /\ LiveRunDone =>
         \A k \in 1..Len(Order) :
            /\ visits[Order[k]] = 1
            /\ Head(ops[Order[k]]) = "check"
            /\ Last(ops[Order[k]]) = "pr" =>
                  log[Order[k]] = "opened" /\ prs[Order[k]] = 1

\* The first repository failed at push, the second one was still published
FaultIsolationWitness ==
    /\ LiveRunDone
    /\ Len(Order) = 2
    /\ Last(ops[Order[1]]) = "push!"
    /\ log[Order[1]] = "failed"
    /\ Last(ops[Order[2]]) = "pr"
    /\ prs[Order[2]] = 1

\* C7: a dry run makes no lookup, clone, write, commit, push or pull request
\* for any repository, and every repository of the grouping gets its preview.
DryRunNoEffects ==
    (run >= 1 /\ isDryRun) =>
        /\ \A r \in Repos : ops[r] = <<>>
        /\ workspace = NoWorkspace
        /\ applied = <<>>
        /\ \A r \in Repos : log[r] \in {"none", "preview"}
        /\ pc = "idle" => \A k \in 1..Len(Order) : log[Order[k]] = "preview"

\* A dry run after a live one: the branch of a previewed repository exists
DryRunNoEffectsWitness ==
    /\ pc = "idle"
    /\ run = 2
    /\ isDryRun
    /\ Len(Order) = 2
    /\ branch[Order[1]]
    /\ ~branch[Order[2]]
    /\ log[Order[1]] = "preview"
    /\ log[Order[2]] = "preview"

\* C8: a repository for which clone, commit, push or pull-request creation
\* failed ends the call with the warning, and the success line is printed
\* only with a pull request.
FailureIsReportedAsFailure ==
    \A r \in Repos :
        /\ (ops[r] # <<>> /\
            Last(ops[r]) \in {"clone!", "commit!", "push!", "pr!"}) =>
               log[r] = "failed"
        /\ log[r] = "opened" => prs[r] >= 1

\* C9: when the branch was pushed and the pull request was not created,
\* every later live call skips the repository at the branch lookup.
OrphanBranchAlwaysSkipped ==
    \A r \in Repos :
        (branch[r] /\ prs[r] = 0 /\ ~Has(ops[r], "push") /\ visits[r] = 1
                   /\ ~isDryRun) =>
            /\ ops[r] = <<"check">>
            /\ log[r] = "skipped"

\* C16: one proposal with a valid range leaves the lines before startLine
\* and after endLine as they are and in their order, and puts the lines of
\* its replacement, none when it is empty, in place of startLine..endLine;
\* a file left without any line is the empty file.
SingleEditFrame ==
    (pc \in {"apply", "commit"} /\ Len(applied) = 1) =>
        LET p == applied[1]
            old == files[CurRepo][p.filePath]
            new == workspace[p.filePath]
            rep == IF p.replacement = EmptyStr THEN <<>> ELSE p.replacement
            removed == p.endLine - p.startLine + 1
            expected == SubSeq(old, 1, p.startLine - 1) \o rep
                        \o SubSeq(old, p.endLine + 1, Len(old))
        IN  (1 <= p.startLine /\ p.startLine <= p.endLine
                              /\ p.endLine <= Len(old)) =>
               /\ Len(expected) = Len(old) - removed + Len(rep)
               /\ expected # <<>> => new = expected
               /\ expected = <<>> => new = EmptyStr
               /\ \A f \in FileNames : f # p.filePath =>
                     workspace[f] = files[CurRepo][f]

\* Lines 2..3 of the README a, b, c, d were deleted: a, d is left
SingleEditFrameWitness ==
    /\ pc \in {"apply", "commit"}
    /\ Len(applied) = 1
    /\ applied[1].filePath = "README.md"
    /\ applied[1].startLine = 2
    /\ applied[1].endLine = 3
    /\ applied[1].replacement = EmptyStr
    /\ files[CurRepo]["README.md"] = <<"a", "b", "c", "d">>
    /\ workspace["README.md"] = <<"a", "d">>

\* The place of a step in the publish sequence, and the steps that failed
StepRank(op) ==
    CASE op = "check" -> 1
      [] op \in {"clone", "clone!"} -> 2
      [] op \in {"apply", "apply!"} -> 3
      [] op \in {"commit", "commit!"} -> 4
      [] op \in {"push", "push!"} -> 5
      [] op \in {"pr", "pr!", "body!"} -> 6
FailedStep(op) == op \in {"clone!", "apply!", "commit!", "push!", "pr!", "body!"}

\* C21: the steps of a repository come in the order branch check, clone,
\* apply, commit, push, pull request, each one behind the success of the
\* one before; a workspace is cloned only for a repository with a proposal
\* whose branch is absent upstream; no push without the commit, no pull
\* request without the push.
PublishStepsInOrder ==
    \A r \in Repos :
       /\ ops[r] # <<>> => ops[r][1] = "check"
       /\ \A k \in 2..Len(ops[r]) :
             /\ ~FailedStep(ops[r][k - 1])
             /\ \/ StepRank(ops[r][k]) = StepRank(ops[r][k - 1]) + 1
                \/ StepRank(ops[r][k]) = 3 /\ StepRank(ops[r][k - 1]) = 3
       /\ Has(ops[r], "clone") => RepoProposals(proposals, r) # <<>>
       /\ (Has(ops[r], "clone") /\ ~Has(ops[r], "push")) => ~branch[r]
       /\ prs[r] > 0 => branch[r]

\* The grouping loop of openCleanPRs on its own
MaxGroup == 3

InitGroup ==
    /\ RaceIdle
    /\ ValIdle
    /\ PubIdle
    /\ MainIdle
    /\ SweepIdle
    /\ ret = NoRet
    /\ arg \in SeqsUpTo(PublishPool, MaxGroup)

\* the loop over proposals has filled byRepo
CallByRepo ==
    /\ ~ret.done
    /\ ret' = [done |-> TRUE, val |-> ByRepo(arg)]
    /\ UNCHANGED <<arg, valVars, pubVars, mainVars, sweepVars, raceVars>>

NextGroup == CallByRepo

SpecGroup == InitGroup /\ [][NextGroup]_vars

InGroups(p, g) ==
    Cardinality({ ki \in (1..Len(g)) \X (1..MaxGroup + 1) :
                    /\ ki[2] <= Len(g[ki[1]].list)
                    /\ g[ki[1]].list[ki[2]] = p })
InInput(p, ps) == Cardinality({ i \in 1..Len(ps) : ps[i] = p })

\* C22: grouping by repository is a partition of the input: the groups
\* have distinct repositories, each proposal is in the group of its own
\* repository as often as it is in the input (none dropped, none
\* duplicated), and each group keeps the input order.
GroupingIsPartition ==
    ret.done =>
       LET g == ret.val
       IN  /\ \A k, l \in 1..Len(g) : k # l => g[k].repo # g[l].repo
           /\ \A k \in 1..Len(g) :
                 /\ g[k].list # <<>>
                 /\ \A i \in 1..Len(g[k].list) : g[k].list[i].repo = g[k].repo
                 /\ g[k].list = SelectSeq(arg, LAMBDA p : p.repo = g[k].repo)
                 /\ g[k].list = RepoProposals(arg, g[k].repo)
           /\ \A p \in PublishPool : InGroups(p, g) = InInput(p, arg)
           /\ GroupOrder(arg) = [k \in 1..Len(g) |-> g[k].repo]

GroupingIsPartitionWitness ==
    /\ ret.done
    /\ Len(arg) = 3
    /\ arg[1].repo = arg[3].repo
    /\ arg[1] # arg[3]
    /\ arg[2].repo # arg[1].repo
    /\ Len(ret.val) = 2

\* The files fs after every proposal of ps, taken in the order of ps
RECURSIVE AppliedAll(_, _)
AppliedAll(fs, ps) ==
    IF ps = <<>> THEN fs
    ELSE LET p == Head(ps)
         IN  AppliedAll([fs EXCEPT ![p.filePath] = ApplyProposal(@, p)],
                        Tail(ps))

\* C25: a pushed branch clean/<date> holds the default branch with every
\* proposal of the repository applied (highest start line first); a
\* repository in which applying a proposal failed has no commit, no push
\* and no pull request in this call.
AllOrNothingPerRepo ==
    \A r \in Repos :
       /\ branch[r] =>
             /\ \A k \in 1..Len(RepoProposals(proposals, r)) :
                   files[r][RepoProposals(proposals, r)[k].filePath] # Missing
             /\ tree[r] = AppliedAll(files[r],
                             SortStable(RepoProposals(proposals, r)))
       /\ ~branch[r] => tree[r] = NoWorkspace /\ prs[r] = 0
       /\ (pc = "pr" /\ r = CurRepo) =>
             /\ Len(applied) = Len(RepoProposals(proposals, r))
             /\ \A k \in 1..Len(proposals) :
                   proposals[k].repo = r => Has(applied, proposals[k])
             /\ tree[r] = workspace
       /\ Has(ops[r], "apply!") =>
             /\ ~Has(ops[r], "commit")
             /\ ~Has(ops[r], "push")
             /\ ~Has(ops[r], "pr")
             /\ log[r] = "failed"
             /\ ~branch[r]

\* One call has pushed r1 with its proposal applied and has given up on
\* r2, whose file was missing from the clone
AllOrNothingPerRepoWitness ==
    /\ pc = "idle"
    /\ run = 1
    /\ branch["r1"]
    /\ tree["r1"]["README.md"] = <<"a", "B", "c", "d">>
    /\ Has(ops["r2"], "apply!")
    /\ tree["r2"] = NoWorkspace

\* C27: a repository whose publish attempt has failed at clone, apply,
\* commit or push has no branch clean/<date> upstream afterwards (the
\* next call for the date skips a repository only when it finds the branch).
FailedAttemptLeavesNoBranch ==
    \A r \in Repos :
       (ops[r] # <<>>
          /\ Last(ops[r]) \in {"clone!", "apply!", "commit!", "push!"})
       => ~branch[r]

-----------------------------------------------------------------------------
(* The default branch moves between the sweep and the clone *)

\* A commit lands on the default branch of r1 after the sweep has read the
\* files and before gh repo clone: it puts a line on top of README.md
UpstreamCommit ==
    /\ pc = "idle"
    /\ run = 0
    /\ files["r1"]["README.md"][1] # "new"
    /\ files' = [files EXCEPT !["r1"]["README.md"] = <<"new">> \o @]
    /\ UNCHANGED <<proposals, branch, prs, tree, prBody, run, isDryRun, ri, pc,
                   workspace, sorted, ai, applied, ops, visits, log,
                   valVars, mainVars, sweepVars, fnVars, raceVars>>

NextDrift == NextApply \/ UpstreamCommit

SpecDrift == InitApply /\ [][NextDrift]_vars

\* C28: the lines an applyProposal call takes out of the cloned file are
\* the proposal's original text, also when the default branch has moved
\* since the sweep (stated for proposals whose ranges do not overlap).
RemovedTextIsOriginal ==
    [][(pc = "apply" /\ ai' = ai + 1
          /\ PairwiseDisjoint(PropsOn(sorted, sorted[ai].filePath)))
       => SubSeq(workspace[sorted[ai].filePath], sorted[ai].startLine,
                 Min(sorted[ai].endLine, Len(workspace[sorted[ai].filePath])))
            = sorted[ai].original]_vars

-----------------------------------------------------------------------------
(* Two live openCleanPRs calls for one date and one repository at once *)

Procs == {"A", "B"}

\* The commit a call makes: two calls make the same commit only with the
\* same tree, parent, author and time
CommitIds == {"c1", "c2"}
NoCommit == "none"

\* A host that takes a pull request for a head that already has one
HostAcceptsAnyPr == TRUE

\* The host takes gh pr create --head clean/<date> when the head has no
\* pull request yet
HostAcceptsPr == raceHost.prs = 0

\* The host takes git push -u origin clean/<date> when the branch is not
\* there, or is there at the commit pushed (nothing to update)
HostAcceptsPush(commit) == raceHost.head \in {NoCommit, commit}

InitRace ==
    /\ ValIdle
    /\ PubIdle
    /\ MainIdle
    /\ SweepIdle
    /\ FnIdle
    /\ race = [p \in Procs |-> [pc |-> "check", early |-> FALSE,
                                 commit |-> NoCommit, log |-> "none"]]
    /\ raceHost = [head |-> NoCommit, prs |-> 0]

RaceUnchanged == UNCHANGED <<valVars, pubVars, mainVars, sweepVars, fnVars>>

\* tryRun(gh api .../clean/<date>) returns the ref: the call skips
RaceCheckFound(p) ==
    /\ race[p].pc = "check"
    /\ raceHost.head # NoCommit
    /\ race' = [race EXCEPT ![p].pc = "end", ![p].log = "skipped"]
    /\ UNCHANGED raceHost
    /\ RaceUnchanged

\* tryRun returns null: the ref is absent, or the lookup itself failed
RaceCheckAbsent(p) ==
    /\ race[p].pc = "check"
    /\ race' = [race EXCEPT ![p].pc = "clone",
                            ![p].early = (raceHost.head = NoCommit)]
    /\ UNCHANGED raceHost
    /\ RaceUnchanged

\* clone, then the applyProposal calls: both work on the call's own tmpDir
RaceLocal(p) ==
    /\ race[p].pc \in {"clone", "apply"}
    /\ race' = [race EXCEPT ![p].pc = IF @ = "clone" THEN "apply" ELSE "commit"]
    /\ UNCHANGED raceHost
    /\ RaceUnchanged

\* checkout -b, add -A, commit in tmpDir
RaceCommit(p) ==
    /\ race[p].pc = "commit"
    /\ \E c \in CommitIds :
         race' = [race EXCEPT ![p].pc = "push", ![p].commit = c]
    /\ UNCHANGED raceHost
    /\ RaceUnchanged

\* A step of the try block throws before the push: the catch block warns
RaceLocalFail(p) ==
    /\ race[p].pc \in {"clone", "apply", "commit"}
    /\ race' = [race EXCEPT ![p].pc = "end", ![p].log = "failed"]
    /\ UNCHANGED raceHost
    /\ RaceUnchanged

\* git push -u origin clean/<date>
RacePushOk(p) ==
    /\ race[p].pc = "push"
    /\ HostAcceptsPush(race[p].commit)
    /\ raceHost' = [raceHost EXCEPT !.head = race[p].commit]
    /\ race' = [race EXCEPT ![p].pc = "pr"]
    /\ RaceUnchanged

\* The push throws: rejected by the host, or failed on the way
RacePushFail(p) ==
    /\ race[p].pc = "push"
    /\ race' = [race EXCEPT ![p].pc = "end", ![p].log = "failed"]
    /\ UNCHANGED raceHost
    /\ RaceUnchanged

\* gh pr create succeeds
RacePrOk(p) ==
    /\ race[p].pc = "pr"
    /\ HostAcceptsPr
    /\ raceHost' = [raceHost EXCEPT !.prs = @ + 1]
    /\ race' = [race EXCEPT ![p].pc = "end", ![p].log = "opened"]
    /\ RaceUnchanged

\* gh pr create fails inside tryRun (rejected by the host, or failed on
\* the way): the same success line is printed
RacePrCreateFail(p) ==
    /\ race[p].pc = "pr"
    /\ race' = [race EXCEPT ![p].pc = "end", ![p].log = "opened"]
    /\ UNCHANGED raceHost
    /\ RaceUnchanged

NextRace ==
    \E p \in Procs :
       \/ RaceCheckFound(p)
       \/ RaceCheckAbsent(p)
       \/ RaceLocal(p)
       \/ RaceCommit(p)
       \/ RaceLocalFail(p)
       \/ RacePushOk(p)
       \/ RacePushFail(p)
       \/ RacePrOk(p)
       \/ RacePrCreateFail(p)

SpecRace == InitRace /\ [][NextRace]_vars

-----------------------------------------------------------------------------
(* The entry point: main of clean.ts *)

\* main without the TARGET_REPO filter
NoFilter(cs, target) == cs

\* ctx.commits.filter((c) => c.repo === targetRepo), when TARGET_REPO is set
FilterTarget(cs, target) ==
    IF target = "" THEN cs ELSE SelectSeq(cs, LAMBDA c : c = target)

\* [...new Set(ctx.commits.map((c) => c.repo))]
ActiveRepos(cs) == { cs[k] : k \in 1..Len(cs) }

InitMain ==
    /\ RaceIdle
    /\ ValIdle
    /\ PubIdle
    /\ SweepIdle
    /\ FnIdle
    /\ apiKey \in BOOLEAN
    /\ ghToken \in BOOLEAN
    /\ dryRunEnv \in BOOLEAN
    /\ targetRepo \in {""} \cup Repos
    /\ mpc = "start"
    /\ exitCode = -1
    /\ done = <<>>
    /\ commits = <<>>
    /\ mCandidates = <<>>
    /\ mProposals = <<>>

\* main returns: the process ends with exit code 0
Return ==
    /\ mpc' = "exited"
    /\ exitCode' = 0

\* The credential checks: a missing API key exits with 1, a missing GitHub
\* token only warns
CheckCredentials ==
    /\ mpc = "start"
    /\ IF ~apiKey
       THEN /\ done' = Append(done, "error: ANTHROPIC_API_KEY is not set")
            /\ mpc' = "exited"
            /\ exitCode' = 1
       ELSE /\ done' = IF ~ghToken THEN Append(done, "warn: no GitHub token")
                       ELSE done
            /\ mpc' = "collect"
            /\ exitCode' = exitCode
    /\ UNCHANGED <<apiKey, ghToken, dryRunEnv, targetRepo, commits,
                   mCandidates, mProposals, valVars, pubVars, sweepVars,
                   fnVars, raceVars>>

\* collectContext resolves; the commits are narrowed to TARGET_REPO; with
\* commits left, today's article is read
CollectContext ==
    /\ mpc = "collect"
    /\ \E cs \in SeqsUpTo(Repos, MaxCommits) :
         LET kept == FilterTarget(cs, targetRepo)
         IN  /\ commits' = kept
             /\ IF kept = <<>>
                THEN /\ done' = Append(done, "collectContext")
                     /\ Return
                ELSE /\ done' = done \o <<"collectContext", "readTodayArticle">>
                     /\ mpc' = "sweep"
                     /\ exitCode' = exitCode
    /\ UNCHANGED <<apiKey, ghToken, dryRunEnv, targetRepo, mCandidates,
                   mProposals, valVars, pubVars, sweepVars,
                   fnVars, raceVars>>

\* sweepForCandidates resolves with candidates of the active repositories
Sweep ==
    /\ mpc = "sweep"
    /\ \E cands \in SeqsUpTo(ActiveRepos(commits), MaxCands) :
         /\ mCandidates' = cands
         /\ done' = Append(done, "sweepForCandidates")
         /\ IF cands = <<>> THEN Return
            ELSE mpc' = "validate" /\ exitCode' = exitCode
    /\ UNCHANGED <<apiKey, ghToken, dryRunEnv, targetRepo, commits,
                   mProposals, valVars, pubVars, sweepVars,
                   fnVars, raceVars>>

\* sweepForCandidates rejects: getChangedSourceFiles read a commit detail
\* that parses but has no files array (detail?.files.filter throws a
\* TypeError that nothing catches before main().catch), which prints the
\* fatal error and exits with 1
SweepThrows ==
    /\ mpc = "sweep"
    /\ done' = done \o <<"sweepForCandidates", "fatal">>
    /\ mpc' = "exited"
    /\ exitCode' = 1
    /\ UNCHANGED <<apiKey, ghToken, dryRunEnv, targetRepo, commits,
                   mCandidates, mProposals, valVars, pubVars, sweepVars,
                   fnVars, raceVars>>

\* validateCandidates resolves with proposals of repositories that have a
\* candidate
Validate ==
    /\ mpc = "validate"
    /\ \E props \in SeqsUpTo(ActiveRepos(mCandidates), MaxProps) :
         /\ mProposals' = props
         /\ done' = Append(done, "validateCandidates")
         /\ IF props = <<>> THEN Return
            ELSE mpc' = "publish" /\ exitCode' = exitCode
    /\ UNCHANGED <<apiKey, ghToken, dryRunEnv, targetRepo, commits,
                   mCandidates, valVars, pubVars, sweepVars,
                   fnVars, raceVars>>

\* openCleanPRs(proposals, date, org, isDryRun) resolves
Publish ==
    /\ mpc = "publish"
    /\ done' = Append(done, IF dryRunEnv THEN "openCleanPRs(dry)"
                            ELSE "openCleanPRs(live)")
    /\ Return
    /\ UNCHANGED <<apiKey, ghToken, dryRunEnv, targetRepo, commits,
                   mCandidates, mProposals, valVars, pubVars, sweepVars,
                   fnVars, raceVars>>

NextMain ==
    \/ CheckCredentials
    \/ CollectContext
    \/ Sweep
    \/ SweepThrows
    \/ Validate
    \/ Publish

SpecMain == InitMain /\ [][NextMain]_vars

\* The calls main has made: activity collection, sweep, oracle, git
Work ==
    { k \in 1..Len(done) :
        done[k] \in {"collectContext", "readTodayArticle", "sweepForCandidates",
                     "validateCandidates", "openCleanPRs(dry)",
                     "openCleanPRs(live)"} }

\* C10: with the oracle API key or the GitHub token missing, the run aborts
\* with a non-zero exit code before any collection, sweep, oracle call or git
\* operation.
MissingCredentialAborts ==
    (~apiKey \/ ~ghToken) =>
        /\ Work = {}
        /\ mpc \in {"start", "exited"}
        /\ mpc = "exited" => exitCode = 1

\* C11: once the credential checks have passed, the run never aborts: it
\* ends with exit code 0 and without a fatal error, whatever failed on the
\* way.
NoFailureAbortsTheRun ==
    (apiKey /\ ghToken /\ mpc = "exited") =>
        /\ exitCode = 0
        /\ ~Has(done, "fatal")

ReposOf(seq) == { seq[k] : k \in 1..Len(seq) }
Published == Has(done, "openCleanPRs(dry)") \/ Has(done, "openCleanPRs(live)")

\* C24: candidates, proposals and the repositories handed to the publish
\* step are repositories with a commit in the feed, which holds commits of
\* the scope-filter repository only when one is set; without commits no
\* sweep runs, without candidates no validation, without proposals no
\* publish step, and the phases run in this order.
ForwardOnlyForActiveRepos ==
    /\ targetRepo # "" => ReposOf(commits) \subseteq {targetRepo}
    /\ ReposOf(mCandidates) \subseteq ReposOf(commits)
    /\ ReposOf(mProposals) \subseteq ReposOf(mCandidates)
    /\ Has(done, "sweepForCandidates") => commits # <<>>
    /\ Has(done, "validateCandidates") => mCandidates # <<>>
    /\ Published => mProposals # <<>>
    /\ \A k, l \in 1..Len(done) :
          /\ (done[k] = "validateCandidates" /\ done[l] = "sweepForCandidates")
                => l < k
          /\ (done[k] \in {"openCleanPRs(dry)", "openCleanPRs(live)"}
                /\ done[l] = "validateCandidates") => l < k
    /\ Published => Has(done, "validateCandidates")
    /\ Has(done, "validateCandidates") => Has(done, "sweepForCandidates")

\* A live run scoped to r2 has gone through all the phases
ForwardOnlyForActiveReposWitness ==
    /\ mpc = "exited"
    /\ targetRepo = "r2"
    /\ Has(done, "openCleanPRs(live)")
    /\ commits = <<"r2", "r2">>
    /\ mCandidates # <<>>
    /\ mProposals # <<>>

-----------------------------------------------------------------------------
(* Phase 1: Sweep *)

\* const DOC_FILES
DOC_FILES == <<"CLAUDE.md", "README.md", "ROADMAP.md">>

\* content.length < 50: a doc file shorter than this is not swept
MinDocChars == 50

\* i - 8 and i + 8: the lines of context around a tag
ContextRadius == 8

\* SOURCE_EXT.test(filename) on the file names of the model
SOURCE_EXT(filename) == filename \in {"src/a.ts", "lib/b.py"}

TodoLine == "// TODO: remove fallback once migrated"
FixmeLine == "// FIXME: drop the shim after the release"
ShortTodoLine == "// TODO: later"

\* TODO_RE.test(line) on the lines of the model: a tag followed by at least
\* ten characters
TODO_RE(line) == line \in {<<TodoLine>>, <<FixmeLine>>}

\* /fixme/i.test(line)
IsFixme(line) == line = <<FixmeLine>>

\* String.prototype.length: the characters of the lines and the newlines
\* between them
RECURSIVE CharLen(_)
CharLen(s) ==
    IF Len(s) = 1 THEN Len(s[1])
    ELSE Len(s[1]) + 1 + CharLen(Tail(s))

\* The template `${n}: ${l}` for a one-line string l
Numbered(n, l) == <<ToString(n) \o ": " \o l[1]>>

\* arr.map((l, i) => `${first + i}: ${l}`): i counts from 0
NumberedFrom(arr, first) ==
    [k \in 1..Len(arr) |-> Numbered(first + (k - 1), arr[k])]

\* Math.max(0, i - 8) without the clipping at the first line
CtxStartUnclipped(i) == i - ContextRadius

\* const ctxStart = Math.max(0, i - 8)
CtxStart(i) == Max(0, i - ContextRadius)

\* const ctxEnd = Math.min(lines.length - 1, i + 8)
CtxEnd(lines, i) == Min(Len(lines) - 1, i + ContextRadius)

\* The tag candidate with the 0-based index of the line as its line number
TodoCandidateZeroBased(repo, filePath, lines, i, recentCommits) ==
    [repo |-> repo,
     filePath |-> filePath,
     startLine |-> i,
     endLine |-> i,
     original |-> lines[i + 1],
     context |-> JoinLines(NumberedFrom(JsSlice(lines, CtxStart(i),
                                                CtxEnd(lines, i) + 1),
                                        CtxStart(i) + 1)),
     kind |-> IF IsFixme(lines[i + 1]) THEN "fixme" ELSE "todo",
     recentCommits |-> recentCommits]

\* The candidate extractTodos pushes for the matching line of index i
\* (from 0)
TodoCandidate(repo, filePath, lines, i, recentCommits) ==
    LET ctxStart == CtxStart(i)
        ctxEnd == CtxEnd(lines, i)
    IN  [repo |-> repo,
         filePath |-> filePath,
         startLine |-> i + 1,
         endLine |-> i + 1,
         original |-> lines[i + 1],
         context |-> JoinLines(NumberedFrom(JsSlice(lines, ctxStart, ctxEnd + 1),
                                               ctxStart + 1)),
         kind |-> IF IsFixme(lines[i + 1]) THEN "fixme" ELSE "todo",
         recentCommits |-> recentCommits]

\* extractTodos: one candidate per matching line, in file order
ExtractTodos(repo, filePath, content, recentCommits) ==
    LET lines == SplitLines(content)
        hits == SelectSeq([k \in 1..Len(lines) |-> k - 1],
                          LAMBDA i : TODO_RE(lines[i + 1]))
    IN  [h \in 1..Len(hits) |->
           TodoCandidate(repo, filePath, lines, hits[h], recentCommits)]

\* The doc-file candidate with its context numbered from 0
DocCandidateZeroBased(repo, docFile, content, recentCommits) ==
    [repo |-> repo,
     filePath |-> docFile,
     startLine |-> 1,
     endLine |-> Len(SplitLines(content)),
     original |-> content,
     context |-> JoinLines(NumberedFrom(SplitLines(content), 0)),
     kind |-> "doc-file",
     recentCommits |-> recentCommits]

\* The doc-file candidate sweepForCandidates pushes for a doc file
DocCandidate(repo, docFile, content, recentCommits) ==
    [repo |-> repo,
     filePath |-> docFile,
     startLine |-> 1,
     endLine |-> Len(SplitLines(content)),
     original |-> content,
     context |-> JoinLines(NumberedFrom(SplitLines(content), 1)),
     kind |-> "doc-file",
     recentCommits |-> recentCommits]

\* null
Null == <<>>

\* readRemoteFile, by what gh api printed:
\*   fail       the command failed or printed nothing: ghApi returns null
\*   badjson    JSON.parse throws: ghApi returns null
\*   notbase64  the JSON has no encoding 'base64' (a directory listing, an
\*              error object)
\*   nocontent  encoding is 'base64' and content is missing: the TypeError
\*              of data.content.replace is caught
\*   ok         the decoded content
RemoteOutcomes == {"fail", "badjson", "notbase64", "nocontent", "ok"}
ReadRemoteFile(outcome, content) ==
    IF outcome = "ok" THEN content ELSE Null

\* [...new Set(...)]: the distinct elements in the order of first occurrence
RECURSIVE UniqueInOrder(_)
UniqueInOrder(seq) ==
    IF seq = <<>> THEN <<>>
    ELSE LET rest == UniqueInOrder(SubSeq(seq, 1, Len(seq) - 1))
             x == seq[Len(seq)]
         IN  IF \E i \in 1..Len(rest) : rest[i] = x THEN rest
             ELSE Append(rest, x)

\* commits.slice(0, 8), changedFiles.slice(0, 15), commits.slice(0, 12)
CommitCap == 8
FileCap == 15
RecentCap == 12

\* recentCommits of a repository: the number of its lines, one per commit
RecentCommits(repo) ==
    Min(Len(SelectSeq(commits, LAMBDA c : c = repo)), RecentCap)

\* The files entries of a commit detail
DetailEntries ==
    { [filename |-> "src/a.ts", status |-> "modified"],
      [filename |-> "lib/b.py", status |-> "added"],
      [filename |-> "lib/b.py", status |-> "removed"],
      [filename |-> "README.md", status |-> "modified"] }

\* What gh api repos/<org>/<repo>/commits/<sha> gives ghApi:
\*   null     the command failed or the output is not JSON
\*   nofiles  JSON without a files array (an error object, a partial detail)
\*   ok       a detail with its files
DetailResponses ==
    { [outcome |-> o, files |-> <<>>] : o \in {"null", "nofiles"} }
    \cup { [outcome |-> "ok", files |-> fs] : fs \in SeqsUpTo(DetailEntries, 2) }

\* The changed files kept in an array: files.push(f.filename)
AddFilesNoSet(found, detail) ==
    found \o
        [k \in 1..Len(SelectSeq(detail, LAMBDA f :
                          f.status # "removed" /\ SOURCE_EXT(f.filename))) |->
            SelectSeq(detail, LAMBDA f :
                f.status # "removed" /\ SOURCE_EXT(f.filename))[k].filename]

\* detail.files.filter(...).forEach((f) => files.add(f.filename))
AddFiles(found, detail) ==
    UniqueInOrder(found \o
        [k \in 1..Len(SelectSeq(detail, LAMBDA f :
                          f.status # "removed" /\ SOURCE_EXT(f.filename))) |->
            SelectSeq(detail, LAMBDA f :
                f.status # "removed" /\ SOURCE_EXT(f.filename))[k].filename])

Line50 == "# daily-logger: cleaner pipeline notes, revision 1"
Line49 == "# daily-logger: cleaner pipeline notes, revision "

\* What the default branches hold: the content of every doc file and of
\* every source file
HostWorlds ==
    { [doc |-> <<Line50>>,
       src |-> <<"const x = 1", TodoLine, "export default x">>],
      [doc |-> <<Line49>>,
       src |-> <<"const x = 1">>],
      [doc |-> <<Line50, "b", "">>,
       src |-> <<FixmeLine, ShortTodoLine, TodoLine>>],
      [doc |-> <<"a", "b">>,
       src |-> EmptyStr] }

SweepRepos == {"r1", "r2"}

\* A source file of n lines with tags on the lines of todoAt and fixmeAt
SourceFile(n, todoAt, fixmeAt) ==
    [k \in 1..n |->
       IF k \in todoAt THEN TodoLine
       ELSE IF k \in fixmeAt THEN FixmeLine
       ELSE "let v" \o ToString(k) \o " = 0"]

InitExtract ==
    /\ RaceIdle
    /\ ValIdle
    /\ PubIdle
    /\ MainIdle
    /\ SweepIdle
    /\ ret = NoRet
    /\ \E n \in 1..MaxFileLines :
         \E at \in SeqsUpTo(1..n, MaxTags) :
            \E fix \in SUBSET {at[k] : k \in 1..Len(at)} :
               arg = SourceFile(n, {at[k] : k \in 1..Len(at)} \ fix, fix)

\* extractTodos(repo, filePath, content, recentCommits) returns
CallExtractTodos ==
    /\ ~ret.done
    /\ ret' = [done |-> TRUE, val |-> ExtractTodos("r1", "src/a.ts", arg, 1)]
    /\ UNCHANGED <<arg, valVars, pubVars, mainVars, sweepVars, raceVars>>

NextExtract == CallExtractTodos

SpecExtract == InitExtract /\ [][NextExtract]_vars

\* sweepForCandidates is called by main with the commits of the feed
InitSweep ==
    /\ RaceIdle
    /\ ValIdle
    /\ PubIdle
    /\ FnIdle
    /\ apiKey = TRUE
    /\ ghToken = TRUE
    /\ dryRunEnv = FALSE
    /\ targetRepo = ""
    /\ mpc = "sweep"
    /\ exitCode = -1
    /\ done = <<"collectContext", "readTodayArticle">>
    /\ commits \in SeqsUpTo(SweepRepos, MaxCommits) \ {<<>>}
    /\ mCandidates = <<>>
    /\ mProposals = <<>>
    /\ sActive = UniqueInOrder(commits)
    /\ sri = 1
    /\ spc = "docs"
    /\ sdi = 1
    /\ sShas = 0
    /\ sChanged = <<>>
    /\ sfi = 1
    /\ sCands = <<>>
    /\ sLast = NoRead
    /\ sHost \in HostWorlds

SweepRepo == sActive[sri]

\* The end of the body of the outer loop: the next repository, or the end
\* of the sweep
EndRepo ==
    /\ sChanged' = <<>>
    /\ sfi' = 1
    /\ sdi' = 1
    /\ IF sri < Len(sActive)
       THEN sri' = sri + 1 /\ spc' = "docs"
       ELSE sri' = sri /\ spc' = "done"

\* const changedFiles = getChangedSourceFiles(...) has returned found
AfterChanged(found) ==
    IF JsSlice(found, 0, FileCap) = <<>>
    THEN EndRepo
    ELSE /\ sChanged' = found
         /\ sfi' = 1
         /\ spc' = "files"
         /\ UNCHANGED <<sri, sdi>>

\* One iteration of the loop over DOC_FILES
ReadDoc ==
    /\ spc = "docs"
    /\ \E outcome \in RemoteOutcomes :
         LET content == ReadRemoteFile(outcome, sHost.doc)
         IN  /\ sLast' = [path |-> DOC_FILES[sdi], outcome |-> outcome,
                          content |-> content]
             /\ sCands' =
                  IF content = Null \/ ~Truthy(content)
                     \/ CharLen(content) < MinDocChars
                  THEN sCands
                  ELSE Append(sCands,
                         DocCandidate(SweepRepo, DOC_FILES[sdi], content,
                                      RecentCommits(SweepRepo)))
    /\ IF sdi < Len(DOC_FILES)
       THEN sdi' = sdi + 1 /\ spc' = spc
       ELSE sdi' = sdi /\ spc' = "commits"
    /\ UNCHANGED <<sActive, sri, sShas, sChanged, sfi, sHost>>
    /\ UNCHANGED <<valVars, pubVars, mainVars, fnVars, raceVars>>

\* getChangedSourceFiles asks for the commits since 48 hours: null, a value
\* without a length, or an array of n commits
ListCommits ==
    /\ spc = "commits"
    /\ \E n \in 0..MaxCommits :
         /\ sShas' = Min(n, CommitCap)
         /\ IF n = 0 THEN EndRepo
            ELSE spc' = "details" /\ UNCHANGED <<sri, sdi, sChanged, sfi>>
    /\ UNCHANGED <<sActive, sCands, sLast, sHost>>
    /\ UNCHANGED <<valVars, pubVars, mainVars, fnVars, raceVars>>

\* One iteration of the loop over commits.slice(0, 8) with a detail that is
\* null or has its files
FetchDetail ==
    /\ spc = "details"
    /\ \E detail \in DetailResponses :
         /\ detail.outcome # "nofiles"
         /\ LET found == IF detail.outcome = "null" THEN sChanged
                         ELSE AddFiles(sChanged, detail.files)
            IN  /\ sShas' = sShas - 1
                /\ IF sShas > 1
                   THEN sChanged' = found /\ UNCHANGED <<sri, spc, sdi, sfi>>
                   ELSE AfterChanged(found)
    /\ UNCHANGED <<sActive, sCands, sLast, sHost>>
    /\ UNCHANGED <<valVars, pubVars, mainVars, fnVars, raceVars>>

\* The same iteration with a detail that has no files: detail?.files is
\* undefined and .filter throws a TypeError out of sweepForCandidates
FetchDetailThrows ==
    /\ spc = "details"
    /\ spc' = "thrown"
    /\ UNCHANGED <<sActive, sri, sdi, sShas, sChanged, sfi, sCands, sLast,
                   sHost>>
    /\ UNCHANGED <<valVars, pubVars, mainVars, fnVars, raceVars>>

\* One iteration of the loop over changedFiles.slice(0, 15)
ReadSource ==
    /\ spc = "files"
    /\ \E outcome \in RemoteOutcomes :
         LET content == ReadRemoteFile(outcome, sHost.src)
         IN  /\ sLast' = [path |-> sChanged[sfi], outcome |-> outcome,
                          content |-> content]
             /\ sCands' =
                  IF content = Null \/ ~Truthy(content) THEN sCands
                  ELSE sCands \o ExtractTodos(SweepRepo, sChanged[sfi],
                                     content, RecentCommits(SweepRepo))
    /\ IF sfi < Len(JsSlice(sChanged, 0, FileCap))
       THEN sfi' = sfi + 1 /\ UNCHANGED <<sri, spc, sdi, sChanged>>
       ELSE EndRepo
    /\ UNCHANGED <<sActive, sShas, sHost>>
    /\ UNCHANGED <<valVars, pubVars, mainVars, fnVars, raceVars>>

NextSweep ==
    \/ ReadDoc
    \/ ListCommits
    \/ FetchDetail
    \/ FetchDetailThrows
    \/ ReadSource

SpecSweep == InitSweep /\ [][NextSweep]_vars

\* C12: a failed, absent or undecodable remote response, a commit detail
\* without a file list included, only skips that file or commit: the sweep
\* never throws.
SweepNeverThrows == spc # "thrown"

\* C17: the doc-file candidate of a file of N lines has startLine 1,
\* endLine N and a context of exactly N entries, the i-th one numbered i
\* and carrying the i-th line of the file.
DocContextComplete ==
    \A k \in 1..Len(sCands) :
       sCands[k].kind = "doc-file" =>
          LET N == Len(sHost.doc)
              context == sCands[k].context
          IN  /\ sCands[k].original = sHost.doc
              /\ sCands[k].startLine = 1
              /\ sCands[k].endLine = N
              /\ Len(context) = N
              /\ \A i \in 1..N :
                    context[i] = ToString(i) \o ": " \o sHost.doc[i]

\* The sweep has pushed the candidate of a README.md of three lines, the
\* last of them empty
DocContextCompleteWitness ==
    /\ spc = "done"
    /\ \E k \in 1..Len(sCands) :
         /\ sCands[k].kind = "doc-file"
         /\ sCands[k].filePath = "README.md"
         /\ sCands[k].endLine = 3
         /\ sCands[k].context = <<"1: " \o Line50, "2: b", "3: ">>

\* C18: the context of the tag candidate of line m of a file of N lines is
\* exactly the lines max(1, m - 8) .. min(N, m + 8), each behind its own
\* 1-based line number.
ContextWindowClipped ==
    ret.done =>
        \A h \in 1..Len(ret.val) :
           LET m == ret.val[h].startLine
               lo == Max(1, m - 8)
               hi == Min(Len(arg), m + 8)
               context == ret.val[h].context
           IN  /\ TODO_RE(<<arg[m]>>)
               /\ Len(context) = hi - lo + 1
               /\ \A j \in 1..Len(context) :
                     context[j] = ToString(lo + j - 1) \o ": " \o arg[lo + j - 1]

\* A file of 19 lines with a tag on line 10, whose window is the 17 lines
\* 2..18, and a tag on the last line, whose window ends there
ContextWindowClippedWitness ==
    /\ ret.done
    /\ Len(arg) = 19
    /\ Len(ret.val) = 2
    /\ ret.val[1].startLine = 10
    /\ Len(ret.val[1].context) = 17
    /\ ret.val[1].context[1] = "2: let v2 = 0"
    /\ ret.val[2].startLine = 19
    /\ Len(ret.val[2].context) = 9
    /\ ret.val[2].context[9] = "19: " \o FixmeLine

\* The file a candidate of the sweep was taken from
FetchedFile(c) == IF c.kind = "doc-file" THEN sHost.doc ELSE sHost.src

\* C23: every candidate of the sweep has 1 <= startLine <= endLine <= the
\* number of lines of the fetched file; a doc-file candidate spans line 1
\* to the last line, a tag candidate has startLine = endLine = the line
\* that carries the tag.
CandidateRangeInFile ==
    \A k \in 1..Len(sCands) :
       LET c == sCands[k]
           lineCount == Len(FetchedFile(c))
       IN  /\ 1 <= c.startLine
           /\ c.startLine <= c.endLine
           /\ c.endLine <= lineCount
           /\ c.kind = "doc-file" =>
                 c.startLine = 1 /\ c.endLine = lineCount
           /\ c.kind # "doc-file" =>
                 /\ c.startLine = c.endLine
                 /\ TODO_RE(<<FetchedFile(c)[c.startLine]>>)
                 /\ c.original = <<FetchedFile(c)[c.startLine]>>

\* A finished sweep with a doc-file candidate of three lines and tag
\* candidates on the first and on the last line of a source file
CandidateRangeInFileWitness ==
    /\ spc = "done"
    /\ \E k, l, m \in 1..Len(sCands) :
         /\ sCands[k].kind = "doc-file" /\ sCands[k].endLine = 3
         /\ sCands[l].kind = "fixme" /\ sCands[l].startLine = 1
         /\ sCands[m].kind = "todo" /\ sCands[m].startLine = 3
         /\ sCands[l].filePath = sCands[m].filePath

IsTag(c) == c.kind # "doc-file"

\* C29: in one sweep no two tag candidates have the same repository, file
\* and line, and no tag candidate is on a file that has a doc-file
\* candidate; so the ranges of the tag candidates of one file, which their
\* proposals keep, are pairwise disjoint.
TagCandidatesDisjoint ==
    \A j, k \in 1..Len(sCands) :
       /\ (j # k /\ IsTag(sCands[j]) /\ IsTag(sCands[k])
             /\ sCands[j].repo = sCands[k].repo
             /\ sCands[j].filePath = sCands[k].filePath)
          => /\ sCands[j].startLine # sCands[k].startLine
             /\ \/ sCands[j].endLine < sCands[k].startLine
                \/ sCands[k].endLine < sCands[j].startLine
       /\ (IsTag(sCands[j]) /\ ~IsTag(sCands[k]))
          => ~(sCands[j].repo = sCands[k].repo
                 /\ sCands[j].filePath = sCands[k].filePath)

\* A finished sweep of a repository with a doc-file candidate, two tag
\* candidates in one changed file and a tag candidate on the same line of
\* another changed file
TagCandidatesDisjointWitness ==
    /\ spc = "done"
    /\ \E d, j, k, l \in 1..Len(sCands) :
         /\ ~IsTag(sCands[d])
         /\ IsTag(sCands[j]) /\ IsTag(sCands[k]) /\ IsTag(sCands[l])
         /\ sCands[d].repo = sCands[j].repo
         /\ sCands[j].repo = sCands[k].repo
         /\ sCands[j].filePath = sCands[k].filePath
         /\ sCands[j].startLine < sCands[k].startLine
         /\ sCands[l].repo = sCands[j].repo
         /\ sCands[l].filePath # sCands[j].filePath
         /\ sCands[l].startLine = sCands[j].startLine

-----------------------------------------------------------------------------
(* The pull-request body: buildPRBody *)

\* The proposals of one repository, as the validator may return them: of
\* one line or several, with or without a replacement, and with a confidence
\* the tag policy lets through
BodyPool ==
    { [repo |-> "r1", filePath |-> f, startLine |-> r[1], endLine |-> r[2],
       original |-> IF r[1] = r[2] THEN <<"old">> ELSE <<"old", "older">>,
       replacement |-> rep, rationale |-> "why", confidence |-> c] :
         f \in {"README.md"}, r \in {<<2, 2>>, <<3, 4>>},
         rep \in {EmptyStr, <<"new", "newer">>},
         c \in {"high", "medium", UndefConf} }

InitBody ==
    /\ RaceIdle
    /\ ValIdle
    /\ PubIdle
    /\ MainIdle
    /\ SweepIdle
    /\ ret = NoRet
    /\ arg \in SeqsUpTo(BodyPool, MaxProps) \ {<<>>}

\* buildPRBody(repoProposals, date) returns
CallBuildPRBody ==
    /\ ~ret.done
    /\ ret' = [done |-> TRUE, val |-> BuildPRBody(arg, RunDate)]
    /\ UNCHANGED <<arg, valVars, pubVars, mainVars, sweepVars, raceVars>>

NextBody == CallBuildPRBody

SpecBody == InitBody /\ [][NextBody]_vars

\* The heading of a confidence section, and the first two lines of the
\* block of a proposal
SectionHeading(title, n) ==
    "## " \o title \o " confidence (" \o ToString(n) \o ")"
BlockTitle(p) ==
    IF p.startLine = p.endLine
    THEN "### 'README.md' line " \o ToString(p.startLine)
    ELSE "### 'README.md' line " \o ToString(p.startLine) \o "-"
            \o ToString(p.endLine)
BlockAction(p) ==
    IF p.replacement = EmptyStr THEN "**Removed** - _why_"
    ELSE "**Updated** - _why_"

\* The lines of the body that are the heading of the section of a title
HeadingsOf(title) ==
    { k \in 1..Len(ret.val) :
        \E n \in 0..Len(arg) : ret.val[k] = SectionHeading(title, n) }

\* The blocks between two lines of the body: title and action, in order
BlocksBetween(from, to) ==
    LET at == SelectSeq([k \in 1..Len(ret.val) |-> k],
                LAMBDA k : /\ from < k
                           /\ k < to
                           /\ \E p \in BodyPool : ret.val[k] = BlockTitle(p))
    IN  [j \in 1..Len(at) |-> <<ret.val[at[j]], ret.val[at[j] + 1]>>]

\* The blocks the proposals of a confidence should have, in input order
BlocksOf(conf) ==
    LET ps == SelectSeq(arg, LAMBDA p : p.confidence = conf)
    IN  [j \in 1..Len(ps) |-> <<BlockTitle(ps[j]), BlockAction(ps[j])>>]

\* The section of a title ends at the next section heading or at the rule
SectionEnd(k) ==
    CHOOSE e \in (k + 1)..Len(ret.val) :
        /\ \/ e \in HeadingsOf("High") \cup HeadingsOf("Medium")
           \/ ret.val[e] = "---"
        /\ \A d \in (k + 1)..(e - 1) :
              /\ d \notin HeadingsOf("High") \cup HeadingsOf("Medium")
              /\ ret.val[d] # "---"

\* The section of a title is there once, counts the proposals of the
\* confidence and lists their blocks
SectionListed(title, conf) ==
    /\ Cardinality(HeadingsOf(title)) = 1
    /\ \A k \in HeadingsOf(title) :
          /\ ret.val[k] = SectionHeading(title, Len(BlocksOf(conf)))
          /\ BlocksBetween(k, SectionEnd(k)) = BlocksOf(conf)

\* C19 as stated: the body of a non-empty proposal list has the High
\* section and behind it the Medium section, each with the number and the
\* blocks of the proposals of its confidence.
BodyHasBothSections ==
    ret.done =>
        /\ SectionListed("High", "high")
        /\ SectionListed("Medium", "medium")
        /\ \A h \in HeadingsOf("High") : \A m \in HeadingsOf("Medium") : h < m

\* C19 as amended: a section is in the body exactly when a proposal has
\* its confidence; a section that is there counts and lists the proposals
\* of its confidence, Updated with a replacement and Removed without, and
\* High comes before Medium.
BodySectionsOfNonEmptyConfidences ==
    ret.done =>
        /\ IF BlocksOf("high") # <<>> THEN SectionListed("High", "high")
           ELSE HeadingsOf("High") = {}
        /\ IF BlocksOf("medium") # <<>> THEN SectionListed("Medium", "medium")
           ELSE HeadingsOf("Medium") = {}
        /\ \A h \in HeadingsOf("High") : \A m \in HeadingsOf("Medium") : h < m

\* A medium update of lines 3-4 and a high removal of line 2: the body
\* lists the removal under High (1) and then the update under Medium (1)
BodySectionsOfNonEmptyConfidencesWitness ==
    /\ ret.done
    /\ Len(arg) = 2
    /\ BlocksOf("medium") = << <<"### 'README.md' line 3-4",
                                "**Updated** - _why_">> >>
    /\ BlocksOf("high") = << <<"### 'README.md' line 2",
                              "**Removed** - _why_">> >>
    /\ arg[1].confidence = "medium"
    /\ ret.val[6] = "## High confidence (1)"
    /\ ret.val[8] = "### 'README.md' line 2"
    /\ ret.val[15] = "## Medium confidence (1)"

\* The title line of the block of a proposal, and the section headings
EditTitle(p) ==
    "### '" \o p.filePath \o "' line " \o ToString(p.startLine)
       \o (IF p.endLine > p.startLine THEN "-" \o ToString(p.endLine) ELSE "")
IsSectionHeading(line) ==
    \E n \in 1..(MaxProps + 1) :
       line \in {SectionHeading("High", n), SectionHeading("Medium", n)}

\* The block of the proposal stands once in the confidence sections
Described(p, body) ==
    Cardinality({ k \in 1..Len(body) :
                    /\ body[k] = EditTitle(p)
                    /\ \E h \in 1..(k - 1) : IsSectionHeading(body[h]) }) = 1

\* C26: no edit is published without being described: every proposal of a
\* repository whose branch was pushed and whose pull request was opened
\* stands in exactly one confidence section of the pull request's body.
EveryPublishedEditDescribed ==
    \A r \in Repos :
       prs[r] > 0 =>
          \A k \in 1..Len(proposals) :
             proposals[k].repo = r =>
                /\ tree[r] # files[r]
                /\ Described(proposals[k], prBody[r])

-----------------------------------------------------------------------------
(* The article body: assembleBody of generate-article.ts *)

\* String.prototype.trimStart and trimEnd on one line
RECURSIVE LTrimLine(_)
LTrimLine(l) ==
    IF l = "" THEN ""
    ELSE IF Head(l) = " " THEN LTrimLine(Tail(l)) ELSE l

RECURSIVE RTrimLine(_)
RTrimLine(l) ==
    IF l = "" THEN ""
    ELSE IF SubSeq(l, Len(l), Len(l)) = " "
         THEN RTrimLine(SubSeq(l, 1, Len(l) - 1)) ELSE l

\* String.prototype.trimEnd: the blank lines at the end go, and the blanks
\* at the end of the last line left
RECURSIVE TrimEnd(_)
TrimEnd(str) ==
    IF Len(str) = 1 THEN <<RTrimLine(str[1])>>
    ELSE IF RTrimLine(str[Len(str)]) = ""
         THEN TrimEnd(SubSeq(str, 1, Len(str) - 1))
         ELSE SubSeq(str, 1, Len(str) - 1) \o <<RTrimLine(str[Len(str)])>>

RECURSIVE TrimStart(_)
TrimStart(str) ==
    IF Len(str) = 1 THEN <<LTrimLine(str[1])>>
    ELSE IF LTrimLine(str[1]) = "" THEN TrimStart(Tail(str))
         ELSE <<LTrimLine(str[1])>> \o Tail(str)

\* String.prototype.trim
Trim(str) == TrimEnd(TrimStart(str))

\* a.startsWith('- ')
StartsWithDash(a) == Len(a) >= 2 /\ SubSeq(a, 1, 2) = "- "

\* The fallback item, in ASCII
FallbackAction ==
    "> - '/roadmap' - review this section and queue the next concrete action"

\* An action list that is undefined, and one that is an array
NoActs == [missing |-> TRUE, items |-> <<>>]
Acts(items) == [missing |-> FALSE, items |-> items]

\* acts.map((a) => `> ${a.startsWith('- ') ? a : `- ${a}`}`)
ActionItems(list) ==
    [k \in 1..Len(list) |->
       << "> " \o (IF StartsWithDash(list[k]) THEN list[k]
                   ELSE "- " \o list[k]) >>]

\* formatActions without the fallback item
FormatActionsNoFallback(acts) ==
    LET items == IF ~acts.missing /\ Len(acts.items) > 0
                 THEN ActionItems(acts.items)
                 ELSE <<>>
    IN  JoinLines(<< <<"> **Suggested actions**">> >> \o items)

\* formatActions
FormatActions(acts) ==
    LET items == IF ~acts.missing /\ Len(acts.items) > 0
                 THEN ActionItems(acts.items)
                 ELSE << <<FallbackAction>> >>
    IN  JoinLines(<< <<"> **Suggested actions**">> >> \o items)

SectionKeys == <<"whatShipped", "theDecisions", "roadmapPulse", "whatsNext">>
SectionTitles ==
    <<"What shipped", "The decisions", "Roadmap pulse", "What's next">>

\* s.actions?.key
ActionsOf(s, key) == IF s.hasActions THEN s.actions[key] ELSE NoActs

\* The parts pushed for the sections from the k-th one on
RECURSIVE SectionParts(_, _)
SectionParts(s, k) ==
    IF k > Len(SectionKeys) THEN <<>>
    ELSE << <<"## " \o SectionTitles[k]>>, <<"">>, Trim(s[SectionKeys[k]]),
            <<"">>, FormatActions(ActionsOf(s, SectionKeys[k])), <<"">> >>
         \o SectionParts(s, k + 1)

\* assembleBody
AssembleBody(s) ==
    LET lede == IF s.lede # Undefined /\ Truthy(Trim(s.lede))
                THEN <<Trim(s.lede), <<"">>>> ELSE <<>>
    IN  TrimEnd(JoinLines(lede \o SectionParts(s, 1)))

\* What the oracle may give as action items, with and without the dash
ActionPool == {"- /adr - write the ADR", "/techdebt - scan for drift"}

\* The action lists of a key the oracle is free with, and of the others
FreeActs == {NoActs} \cup { Acts(l) : l \in SeqsUpTo(ActionPool, MaxActions) }
FixedActs == {NoActs, Acts(<<"- /roadmap - update the phase">>)}

\* Structured articles: the four sections are non-empty strings (the caller
\* has checked that), the lede and the actions may be missing
Articles ==
    { [lede |-> lede,
       whatShipped |-> shipped,
       theDecisions |-> <<"A decision was made.">>,
       roadmapPulse |-> <<"Phase 1 is progressing.">>,
       whatsNext |-> next,
       hasActions |-> has,
       actions |-> [key \in {"whatShipped", "theDecisions", "roadmapPulse",
                             "whatsNext"} |->
                      IF ~has THEN NoActs
                      ELSE IF key = "whatShipped" THEN a1
                      ELSE IF key = "whatsNext" THEN a4
                      ELSE a23]] :
        lede \in {Undefined, EmptyStr, <<"   ">>, <<"  Opening sentence.  ">>},
        shipped \in { <<"Something shipped.">>,
                      <<"  ", "  Content with padding.  ", "More.", "  ">>,
                      <<"   ">> },
        next \in { <<"Do the next thing.">>, <<"Do it.", "">> },
        has \in BOOLEAN,
        a1 \in FreeActs, a4 \in FreeActs, a23 \in FixedActs }

InitArticle ==
    /\ RaceIdle
    /\ ValIdle
    /\ PubIdle
    /\ MainIdle
    /\ SweepIdle
    /\ ret = NoRet
    /\ arg \in Articles

\* assembleBody(parsed) returns
CallAssembleBody ==
    /\ ~ret.done
    /\ ret' = [done |-> TRUE, val |-> AssembleBody(arg)]
    /\ UNCHANGED <<arg, valVars, pubVars, mainVars, sweepVars, raceVars>>

NextArticle == CallAssembleBody

SpecArticle == InitArticle /\ [][NextArticle]_vars

\* The lines of the returned body that are a level-2 heading, and those
\* that open a Suggested-actions block
HeadingLines ==
    SelectSeq([k \in 1..Len(ret.val) |-> k],
              LAMBDA k : Len(ret.val[k]) >= 3 /\ SubSeq(ret.val[k], 1, 3) = "## ")
ActionBlockLines ==
    SelectSeq([k \in 1..Len(ret.val) |-> k],
              LAMBDA k : ret.val[k] = "> **Suggested actions**")

\* The lede has a character that is not a blank
LedeNonBlank ==
    /\ arg.lede # Undefined
    /\ \E k \in 1..Len(arg.lede) : LTrimLine(arg.lede[k]) # ""

\* C20: the body has exactly the four headings What shipped, The decisions,
\* Roadmap pulse, What's next in this order; behind each heading come the
\* section's content and exactly one Suggested-actions block, with the
\* fallback item when the section's action list is missing or empty; the
\* lede stands before the first heading exactly when it is not blank.
FourSectionsEachWithActions ==
    ret.done =>
        /\ [j \in 1..Len(HeadingLines) |-> ret.val[HeadingLines[j]]] =
              <<"## What shipped", "## The decisions", "## Roadmap pulse",
                "## What's next">>
        /\ Len(ActionBlockLines) = 4
        /\ \A j \in 1..4 :
              LET h == HeadingLines[j]
                  b == ActionBlockLines[j]
                  end == IF j < 4 THEN HeadingLines[j + 1] - 2
                         ELSE Len(ret.val)
                  acts == ActionsOf(arg, SectionKeys[j])
              IN  /\ h + 3 <= b
                  /\ b < end + 1
                  /\ ret.val[h + 1] = ""
                  /\ SubSeq(ret.val, h + 2, b - 2) = Trim(arg[SectionKeys[j]])
                  /\ ret.val[b - 1] = ""
                  /\ j < 4 => ret.val[end + 1] = ""
                  /\ IF acts.missing \/ acts.items = <<>>
                     THEN SubSeq(ret.val, b + 1, end) = <<FallbackAction>>
                     ELSE /\ end - b = Len(acts.items)
                          /\ \A k \in 1..Len(acts.items) :
                               ret.val[b + k] \in
                                  {"> " \o acts.items[k],
                                   "> - " \o acts.items[k]}
        /\ IF LedeNonBlank
           THEN /\ HeadingLines[1] = 3
                /\ ret.val[1] = "Opening sentence."
                /\ ret.val[2] = ""
           ELSE HeadingLines[1] = 1

\* An article with a padded lede, a padded first section with an action
\* that lacks its dash, and an empty action list for the last section
FourSectionsEachWithActionsWitness ==
    /\ ret.done
    /\ arg.lede = <<"  Opening sentence.  ">>
    /\ arg.hasActions
    /\ arg.actions["whatsNext"] = Acts(<<>>)
    /\ ret.val[1] = "Opening sentence."
    /\ ret.val[5] = "Content with padding.  "
    /\ ret.val[9] = "> - /techdebt - scan for drift"
    /\ ret.val[Len(ret.val)] = FallbackAction

=============================================================================
